---- MODULE Spec2Model ----
(***************************************************************************)
(* Model of the Martingale Chaser strategy engine (TradingEngine) driven   *)
(* by the periodic tick run_trading_cycle and by the order-status callback *)
(* on_order_update.  The order book is written by the ingest thread at any *)
(* time, so each read of it in a tick is an input of the tick.             *)
(*                                                                         *)
(* Fixed point: one price unit is 0.0025 (400 units = 1.0), one quantity   *)
(* unit is base_quantity_ (0.01), rates are in 1/10000, order prices on    *)
(* the wire are in price units times RateScale.  Order ids are the         *)
(* system_clock reading that generate_id() appends to "BOT_"; the empty    *)
(* string is EmptyId.                                                      *)
(***************************************************************************)
EXTENDS Integers, Sequences, FiniteSets, TLC

VARIABLES
    current_state_,               \* BotState
    active_order_id_,             \* id of the entry or aggressive close order
    active_exit_order_id_,        \* id of the resting take-profit order
    active_order_price_,          \* price of the working entry (chase logic)
    elapsed_ms,                   \* steady_clock::now() - state_entry_time_
    current_qty_,
    martingale_step_,
    is_short_,
    entry_price_,
    position_filled_,
    waiting_for_close_,
    trigger_martingale_on_close_,
    sys_clock,                    \* system_clock reading used by generate_id
    sent,                         \* requests the last handler sent to the venue
    ev,                           \* the handler that ran last, the parity of the
                                  \* number of handler runs so far, what
                                  \* manage_open_position saw if it ran, the
                                  \* id of the Filled on_order_update handled
                                  \* and the id of the close it saw come back
                                  \* Cancelled or Rejected
    loss,                         \* the position a stop-loss close fill closed,
                                  \* kept until the next entry is placed
    tick_state,                   \* the BotState a tick in progress has loaded
                                  \* for its switch, "none" between ticks
    order_buffer_,                \* AeronPublisher's record for symbol_
    bids_, asks_,                 \* OrderBook: the two arrays of PriceLevel
    bid_count_, ask_count_,       \* OrderBook: the published level counts
    update_id_,                   \* OrderBook: the update counter
    feed,                         \* the ingest thread inside handle_message
    reader,                       \* the trading thread inside get_best_bid or
                                  \* get_best_ask, and what the last call read
    published,                    \* per side, the array as it was when the
                                  \* side's count was last stored
    order_map,                    \* AeronPublisher::order_buffer_, every key
    buf_call,                     \* the last call on the order buffer and
                                  \* what it returned
    pub_call,                     \* the last AeronPublisher::publish call
    session,                      \* one WebSocket session of the client
    proc,                         \* main and the threads it starts
    codec,                        \* the last SBEEncoder call and its bytes
    venue                         \* the exchange: the orders it holds, the
                                  \* position, the reports not yet delivered

vars == <<current_state_, active_order_id_, active_exit_order_id_,
          active_order_price_, elapsed_ms, current_qty_, martingale_step_,
          is_short_, entry_price_, position_filled_, waiting_for_close_,
          trigger_martingale_on_close_, sys_clock, sent, ev, loss,
          tick_state, order_buffer_, bids_, asks_, bid_count_, ask_count_,
          update_id_, feed, reader, published, order_map, buf_call,
          pub_call, session, proc, codec, venue>>

engine == <<current_state_, active_order_id_, active_exit_order_id_,
            active_order_price_, elapsed_ms, current_qty_, martingale_step_,
            is_short_, entry_price_, position_filled_, waiting_for_close_,
            trigger_martingale_on_close_, order_buffer_>>

\* what the handlers of the engine taken as wholes leave alone
book == <<bids_, asks_, bid_count_, ask_count_, update_id_, feed, reader,
          published>>

services == <<order_map, buf_call, pub_call, session, proc, codec, venue>>

aux == <<tick_state, book, services>>

----------------------------------------------------------------------------
(* Bounds of the model *)

\* system_clock readings 1..MaxClock are distinguished; the clock then stays.
MaxClock == 2
\* losses the model follows beyond max_martingale_steps_
StepSlack == 1
\* OrderBook::MAX_LEVELS, 10 in OrderBook.h, scaled down
MAX_LEVELS == 2
\* orderbook messages with data the model follows
MaxUpdates == 2

----------------------------------------------------------------------------
(* Program constants *)

RateScale == 100 * 100
base_quantity_ == 1               \* 0.01
\* 100000 in the source; scaled down so that the cap can be reached
max_martingale_steps_ == 1
profit_target_percent_ == 10      \* 0.001
stop_loss_percent_ == -5          \* -0.0005
ORDER_TIMEOUT_MS == 5000
STALE_MS == 10000
GRACE_MS == 500
SETTLE_MS == 500
ENTRY_OFFSET == 40                \* 0.1
SAFETY_CAP == 2                   \* 0.005
CHASE_DELTA == 20                 \* 0.05
CLOSE_OFFSET == 40000             \* 100.0
EmptyId == 0                      \* std::string()

States == {"IDLE", "PLACING_ORDER", "WORKING", "IN_POSITION", "CANCELLING",
           "RECOVERING"}
Statuses == {"New", "Filled", "Cancelled", "Rejected"}
symbol_ == "BTCUSDT"
Symbols == {symbol_, "", "ETHUSDT"}

\* an id no generate_id() call of the model returns, and the id of a
\* record the buffer holds when the engine is constructed
UnknownId == MaxClock + 1
RecoveredId == MaxClock + 2
Ids == (EmptyId .. MaxClock) \cup {UnknownId, RecoveredId}

----------------------------------------------------------------------------
(* Order book: the leading level of each side and whether the side's count
   is positive. *)

NoLevel == [count |-> 0, price |-> 0, qty |-> 0]
Level(p, q) == [count |-> 1, price |-> p, qty |-> q]

BidLevels == {Level(40000, 1), Level(39900, 1), Level(40000, 0)}
AskLevels == {Level(40040, 1), Level(39900, 1)}

Books == [bid : BidLevels \cup {NoLevel}, ask : AskLevels \cup {NoLevel}]

\* an answer that is absent only when price and quantity are both bad
get_best_bid_both_bad(b) ==
    b.bid.count > 0 /\ ~(b.bid.price <= 0 /\ b.bid.qty <= 0)

\* OrderBook::get_best_bid / get_best_ask: the boolean result
get_best_bid(b) == b.bid.count > 0 /\ ~(b.bid.price <= 0 \/ b.bid.qty <= 0)
get_best_ask(b) == b.ask.count > 0 /\ ~(b.ask.price <= 0 \/ b.ask.qty <= 0)

\* books the ingest thread can have produced from b by zero or more orderbook
\* messages: update_bids / update_asks replace a side, never with no level
FeedReach(b) == {c \in Books : (c.bid = b.bid \/ c.bid.count > 0)
                            /\ (c.ask = b.ask \/ c.ask.count > 0)}

\* TradingEngine::validate_market_data (symbol_ subscribed, book present)
validate_market_data(b) ==
    /\ get_best_bid(b) /\ get_best_ask(b)
    /\ ~(b.bid.qty <= 0 \/ b.ask.qty <= 0)
    /\ ~(b.bid.price > b.ask.price)

----------------------------------------------------------------------------
(* OrderBook as the ingest thread fills it *)

PriceLevel(p, q) == [price |-> p, quantity |-> q]

Slots == 1 .. MAX_LEVELS

\* std::make_shared<OrderBook>() zeroes the arrays; no entry is read before
\* it is written
NoLevels == [i \in Slots |-> PriceLevel(0, 0)]

\* the bids and asks handle_message parses out of one message around price
\* p: bids downwards from p, asks upwards from p + 1, so a message never
\* crosses itself.  Around 0 the leading bid has no price, around 2 the
\* leading ask has no quantity.
BasePrices == 0 .. 2
ParsedBids(p, n) == [j \in 1 .. n |-> PriceLevel(p - (j - 1), 1)]
ParsedAsks(p, n) == [j \in 1 .. n |-> PriceLevel(p + j, 2 - p)]
FeedMessages ==
    {[bids |-> ParsedBids(p, nb), asks |-> ParsedAsks(p, na)] :
        p \in BasePrices, nb \in 0 .. MAX_LEVELS + 1, na \in 0 .. MAX_LEVELS + 1}

\* last: how the last message handled ended, "counted" or "skipped"
FeedIdle == [pc |-> "idle", bids |-> <<>>, asks |-> <<>>, i |-> 0, start |-> 0,
             last |-> "none"]

NotCalled == [pc |-> "idle", side |-> "", seen |-> NoLevel, known |-> NoLevel,
              found |-> FALSE, called |-> FALSE]

BookInit ==
    /\ bids_ = NoLevels /\ asks_ = NoLevels
    /\ bid_count_ = 0 /\ ask_count_ = 0
    /\ update_id_ = 0
    /\ feed = FeedIdle
    /\ reader = NotCalled
    /\ published = [bid |-> NoLevels, ask |-> NoLevels]

----------------------------------------------------------------------------
(* Requests to the venue *)

PlaceReq(side, qty, price, id, maker) ==
    [op |-> "place", side |-> side, qty |-> qty, price |-> price, id |-> id,
     maker |-> maker]
CancelReq(id) ==
    [op |-> "cancel", side |-> "", qty |-> 0, price |-> 0, id |-> id,
     maker |-> FALSE]

IsPlace(r) == r.op = "place"
IsCancel(r) == r.op = "cancel"

\* TradingEngine::generate_id
generate_id == sys_clock

\* the ages the model tells apart: below the grace and settle windows, at
\* their end, just past the order timeout and just past the stale age (an age
\* of ORDER_TIMEOUT_MS passes every comparison as GRACE_MS does, and one of
\* STALE_MS as ORDER_TIMEOUT_MS + 1 does)
ElapsedPoints == {0, GRACE_MS, ORDER_TIMEOUT_MS + 1, STALE_MS + 1}

----------------------------------------------------------------------------
(* AeronPublisher's order buffer, as far as symbol_ goes *)

\* no entry for the symbol in order_buffer_
NoRecord == [present |-> FALSE, order_id |-> EmptyId, side |-> "",
             price |-> 0, quantity |-> 0, is_active |-> FALSE]
AeronOrderRecord(id, side, price, qty, active) ==
    [present |-> TRUE, order_id |-> id, side |-> side, price |-> price,
     quantity |-> qty, is_active |-> active]

\* what the buffer handed to the constructor may hold for the symbol
BufferStates ==
    {NoRecord} \cup {AeronOrderRecord(RecoveredId, side, 39980, 1, active) :
                        side \in {"Buy", "Sell"}, active \in BOOLEAN}

\* AeronPublisher::has_order_in_buffer
has_order_in_buffer(buf) == buf.present /\ buf.is_active

\* AeronPublisher::get_order_from_buffer
get_order_from_buffer(buf) == IF buf.present THEN buf ELSE NoRecord

\* a removal that also wipes the quantity
remove_order_from_buffer_wipes(buf) ==
    IF buf.present THEN [buf EXCEPT !.is_active = FALSE, !.quantity = 0]
    ELSE buf

\* AeronPublisher::remove_order_from_buffer
remove_order_from_buffer(buf) ==
    IF buf.present THEN [buf EXCEPT !.is_active = FALSE] ELSE buf

----------------------------------------------------------------------------
(* AeronPublisher's order buffer with all its keys.  A record's symbol is a
   char array; the map key is the std::string made from it, the characters
   before the first NUL. *)

NUL == "NUL"
\* char symbol[16], scaled to three characters; each array holds a NUL
SymbolArrays == {<<"B", "T", NUL>>, <<"E", NUL, NUL>>, <<"E", NUL, "T">>}

RECURSIVE c_str(_)
\* std::string(const char*): the characters before the first NUL
c_str(chars) ==
    IF chars = <<>> \/ Head(chars) = NUL THEN <<>>
    ELSE <<Head(chars)>> \o c_str(Tail(chars))

BufferKeys == {c_str(a) : a \in SymbolArrays}

\* the records callers hand to publish_order and update_order_in_buffer
OrderRecords ==
    {[symbol |-> a] @@ AeronOrderRecord(id, "Buy", 39980, 1, active) :
        a \in SymbolArrays, id \in {1}, active \in BOOLEAN}

\* AeronOrderRecord{} as get_order_from_buffer returns it for a missing key
EmptyRecord == [symbol |-> <<NUL, NUL, NUL>>] @@ NoRecord

\* unordered_map::find: the index of the node with the key, 0 for end()
find(m, key) ==
    IF \E i \in 1 .. Len(m) : m[i].key = key
    THEN CHOOSE i \in 1 .. Len(m) : m[i].key = key
    ELSE 0

\* the record stored under a key, NoRecord-like when there is none
stored(m, key) == IF find(m, key) = 0 THEN EmptyRecord ELSE m[find(m, key)].rec

\* an assignment that adds a node even when the key has one
assign_adds_node(m, key, rec) == Append(m, [key |-> key, rec |-> rec])

\* order_buffer_[key] = rec
assign(m, key, rec) ==
    IF find(m, key) = 0 THEN Append(m, [key |-> key, rec |-> rec])
    ELSE [m EXCEPT ![find(m, key)].rec = rec]

NoCall == [op |-> "none", key |-> <<>>, arg |-> EmptyRecord,
           ret |-> EmptyRecord, ok |-> FALSE]

NoPublish == [called |-> FALSE, publication |-> FALSE, offers |-> <<>>,
              attempts |-> 0, ret |-> FALSE]

\* link: what libwebsockets last reported for the connection; wire: the
\* message the venue is sending and how many of its fragments have arrived
NoMessage == [kind |-> "none", retCode |-> 0, id |-> 0]
SessionInit == [link |-> "connecting", rx_buffer |-> <<>>, parsed |-> <<>>,
                routed |-> "none", emitted |-> <<>>,
                wire |-> [msg |-> NoMessage, of |-> 0, next |-> 0]]
\* main after the two service threads were started (main.cpp 17-88)
Clients == {"public", "trade"}
ProcInit == [g_running |-> TRUE, main |-> "init", exit |-> -1,
             aeron_enabled |-> FALSE, connection_timeout |-> 0,
             loop_count |-> 0,
             running_ |-> [c \in Clients |-> TRUE],
             connected_ |-> [c \in Clients |-> FALSE],
             thread |-> [c \in Clients |-> "running"],
             joined |-> [c \in Clients |-> FALSE],
             aeron_thread |-> "none", aeron_joined |-> FALSE]
\* SBEEncoder(): a buffer of 1 KB, nothing written
CodecInit == [op |-> "none", x |-> [template |-> 0], bytes |-> <<>>,
              capacity |-> 1024, overrun |-> FALSE]

\* the exchange before the first order.  n: the parity of the handler runs
\* whose requests it has received; entered, exited: the quantity the last
\* entry fill opened and the quantity exit and close fills have taken since
VenueInit == [n |-> 0, live |-> {}, pos |-> 0, reports |-> <<>>,
              entered |-> 0, exited |-> 0]

ServicesInit ==
    /\ order_map = <<>>
    /\ buf_call = NoCall
    /\ pub_call = NoPublish
    /\ session = SessionInit
    /\ proc = ProcInit
    /\ codec = CodecInit
    /\ venue = VenueInit

----------------------------------------------------------------------------
(* Construction *)

\* values an uninitialised double entry_price_ is followed through
UninitPrices == {39980}

NoLoss == [some |-> FALSE, short |-> FALSE, qty |-> 0, step |-> 0]

\* trigger_martingale_on_close_ is declared outside the sources at hand; it
\* starts unset, and the engine reads it only after a stop loss has set it
pending_reverse_initial == FALSE

InitCommon ==
    /\ active_order_price_ = 0
    /\ elapsed_ms = STALE_MS + 1
    /\ martingale_step_ = 0
    /\ waiting_for_close_ = FALSE
    /\ trigger_martingale_on_close_ = pending_reverse_initial
    /\ active_exit_order_id_ = EmptyId
    /\ sys_clock = 1
    /\ sent = <<>>
    /\ ev = [op |-> "init", n |-> 0, seen |-> "none", filled |-> EmptyId,
          returned |-> EmptyId]
    /\ loss = NoLoss
    /\ tick_state = "none"
    /\ BookInit
    /\ ServicesInit

\* TradingEngine::TradingEngine.  No record of the durable buffer is active
\* when the constructor runs (nothing ever writes one), so
\* reconcile_state_on_startup finds none.
InitFresh ==
    /\ InitCommon
    /\ current_state_ = "IDLE"
    /\ active_order_id_ = EmptyId
    /\ current_qty_ = base_quantity_
    /\ is_short_ = FALSE
    /\ entry_price_ \in UninitPrices
    /\ position_filled_ = FALSE
    /\ order_buffer_ = NoRecord

\* the fields reconcile_state_on_startup leaves as the constructor set them
\* when it finds no active record
NotRecovered ==
    /\ current_state_ = "IDLE"
    /\ active_order_id_ = EmptyId
    /\ current_qty_ = base_quantity_
    /\ is_short_ = FALSE
    /\ entry_price_ \in UninitPrices
    /\ position_filled_ = FALSE

\* reconcile_state_on_startup that does not record the position as filled
reconcile_state_on_startup_not_filled(rec) ==
    /\ active_order_id_ = rec.order_id
    /\ current_qty_ = rec.quantity
    /\ is_short_ = (rec.side = "Sell")
    /\ entry_price_ = rec.price
    /\ position_filled_ = FALSE
    /\ current_state_ = "IN_POSITION"

\* TradingEngine::reconcile_state_on_startup with an active record rec
reconcile_state_on_startup(rec) ==
    /\ active_order_id_ = rec.order_id
    /\ current_qty_ = rec.quantity
    /\ is_short_ = (rec.side = "Sell")
    /\ entry_price_ = rec.price
    /\ position_filled_ = TRUE
    /\ current_state_ = "IN_POSITION"

\* TradingEngine::TradingEngine handed a publisher whose buffer is buf
InitRecover ==
    \E buf \in BufferStates :
        /\ InitCommon
        /\ order_buffer_ = buf
        /\ IF has_order_in_buffer(buf)
           THEN reconcile_state_on_startup(get_order_from_buffer(buf))
           ELSE NotRecovered

Init == InitFresh

----------------------------------------------------------------------------
(* The tick: TradingEngine::run_trading_cycle and what it calls *)

\* TradingEngine::place_order
place_order(price, is_short, is_maker) ==
    /\ active_order_id_' = generate_id
    /\ active_order_price_' = price
    /\ current_state_' = "PLACING_ORDER"
    /\ elapsed_ms' = 0
    /\ entry_price_' = price
    /\ is_short_' = is_short
    /\ position_filled_' = FALSE
    /\ sent' = <<PlaceReq(IF is_short THEN "Sell" ELSE "Buy", current_qty_,
                          price * RateScale, generate_id, is_maker)>>
    /\ UNCHANGED <<order_buffer_, active_exit_order_id_, current_qty_, martingale_step_,
                   waiting_for_close_, trigger_martingale_on_close_>>

\* an entry price that is always the capped one
EntryPrice_capped(b, short) ==
    IF ~short THEN b.ask.price - SAFETY_CAP ELSE b.bid.price + SAFETY_CAP

\* the price evaluate_entry_signal computes from the book it reads
EntryPrice(b, short) ==
    LET mid_price == (b.bid.price + b.ask.price) \div 2
        buy == mid_price - ENTRY_OFFSET
        sell == mid_price + ENTRY_OFFSET
    IN  IF ~short
        THEN IF buy >= b.ask.price THEN b.ask.price - SAFETY_CAP ELSE buy
        ELSE IF sell <= b.bid.price THEN b.bid.price + SAFETY_CAP ELSE sell

\* TradingEngine::evaluate_entry_signal, reading book b
evaluate_entry_signal(b) ==
    IF ~get_best_bid(b) \/ ~get_best_ask(b)
    THEN /\ sent' = <<>>
         /\ UNCHANGED engine
    ELSE place_order(EntryPrice(b, is_short_), is_short_, TRUE)

\* a timeout that cancels but leaves state_entry_time_ as it was
handle_timeout_keeps_timer ==
    IF elapsed_ms > ORDER_TIMEOUT_MS
    THEN /\ sent' = <<CancelReq(active_order_id_)>>
         /\ UNCHANGED engine
    ELSE /\ sent' = <<>>
         /\ UNCHANGED engine

\* TradingEngine::handle_timeout
handle_timeout ==
    IF elapsed_ms > ORDER_TIMEOUT_MS
    THEN /\ sent' = <<CancelReq(active_order_id_)>>
         /\ elapsed_ms' = 0
         /\ UNCHANGED <<order_buffer_, current_state_, active_order_id_, active_exit_order_id_,
                        active_order_price_, current_qty_, martingale_step_,
                        is_short_, entry_price_, position_filled_,
                        waiting_for_close_, trigger_martingale_on_close_>>
    ELSE /\ sent' = <<>>
         /\ UNCHANGED engine

\* the cancel both branches of monitor_working_order issue
CancelWorking ==
    /\ sent' = <<CancelReq(active_order_id_)>>
    /\ current_state_' = "CANCELLING"
    /\ elapsed_ms' = 0
    /\ UNCHANGED <<order_buffer_, active_order_id_, active_exit_order_id_, active_order_price_,
                   current_qty_, martingale_step_, is_short_, entry_price_,
                   position_filled_, waiting_for_close_,
                   trigger_martingale_on_close_>>

\* a chase on a move of the best price to either side of the order
chase_needed_either_way(b) ==
    IF ~is_short_
    THEN \/ b.bid.price > active_order_price_ + CHASE_DELTA
         \/ b.bid.price < active_order_price_ - CHASE_DELTA
    ELSE \/ b.ask.price < active_order_price_ - CHASE_DELTA
         \/ b.ask.price > active_order_price_ + CHASE_DELTA

chase_needed(b) ==
    IF ~is_short_
    THEN b.bid.price > active_order_price_ + CHASE_DELTA
    ELSE b.ask.price < active_order_price_ - CHASE_DELTA

\* TradingEngine::monitor_working_order; b is the book it reads after the
\* age checks
monitor_working_order(b) ==
    IF elapsed_ms > STALE_MS
    THEN CancelWorking
    ELSE IF elapsed_ms < GRACE_MS
              \/ ~get_best_bid(b) \/ ~get_best_ask(b)
              \/ ~chase_needed(b)
         THEN /\ sent' = <<>>
              /\ UNCHANGED engine
         ELSE CancelWorking

\* TradingEngine::close_position, reading book b; out holds the requests the
\* caller has already sent in this tick
close_position(b, out) ==
    IF ~get_best_bid(b) \/ ~get_best_ask(b)
    THEN /\ sent' = out
         /\ UNCHANGED <<order_buffer_, current_state_, active_order_id_, elapsed_ms,
                        waiting_for_close_>>
    ELSE LET side == IF is_short_ THEN "Buy" ELSE "Sell"
             price == IF is_short_ THEN b.ask.price + CLOSE_OFFSET
                                   ELSE b.bid.price - CLOSE_OFFSET
         IN  /\ active_order_id_' = generate_id
             /\ waiting_for_close_' = TRUE
             /\ current_state_' = "PLACING_ORDER"
             /\ elapsed_ms' = 0
             /\ sent' = Append(out, PlaceReq(side, current_qty_,
                                             price * RateScale, generate_id,
                                             FALSE))
             /\ order_buffer_' = remove_order_from_buffer(order_buffer_)

\* the price manage_open_position marks the position at
current_market_price(b) == IF is_short_ THEN b.ask.price ELSE b.bid.price

\* pnl_percent <= stop_loss_percent_, with pnl_percent the signed move of the
\* mark from entry_price_ divided by entry_price_ (entry_price_ > 0)
stop_loss_hit(b) ==
    LET move == IF is_short_ THEN entry_price_ - current_market_price(b)
                             ELSE current_market_price(b) - entry_price_
    IN  move * RateScale <= stop_loss_percent_ * entry_price_

\* manage_open_position that leaves the resting take-profit order alone when
\* the stop loss fires
manage_open_position_keeps_exit(b2, b3) ==
    IF \/ ~position_filled_
       \/ elapsed_ms < SETTLE_MS
       \/ ~get_best_bid(b2) \/ ~get_best_ask(b2)
       \/ ~stop_loss_hit(b2)
    THEN /\ sent' = <<>>
         /\ UNCHANGED engine
    ELSE /\ trigger_martingale_on_close_' = TRUE
         /\ close_position(b3, <<>>)
         /\ UNCHANGED <<active_exit_order_id_, active_order_price_,
                        current_qty_, martingale_step_, is_short_,
                        entry_price_, position_filled_>>

\* TradingEngine::manage_open_position; b2 is the book it reads, b3 the book
\* close_position reads after it
manage_open_position(b2, b3) ==
    IF \/ ~position_filled_
       \/ elapsed_ms < SETTLE_MS
       \/ ~get_best_bid(b2) \/ ~get_best_ask(b2)
       \/ ~stop_loss_hit(b2)
    THEN /\ sent' = <<>>
         /\ UNCHANGED engine
    ELSE /\ active_exit_order_id_' = EmptyId
         /\ trigger_martingale_on_close_' = TRUE
         /\ close_position(b3, IF active_exit_order_id_ # EmptyId
                               THEN <<CancelReq(active_exit_order_id_)>>
                               ELSE <<>>)
         /\ UNCHANGED <<active_order_price_, current_qty_, martingale_step_,
                        is_short_, entry_price_, position_filled_>>

\* TradingEngine::apply_martingale_recovery
apply_martingale_recovery ==
    /\ martingale_step_' = martingale_step_ + 1
    /\ current_qty_' = current_qty_ * 2
    /\ is_short_' = ~is_short_
    /\ current_state_' = "IDLE"
    /\ sent' = <<>>
    /\ UNCHANGED <<order_buffer_, active_order_id_, active_exit_order_id_, active_order_price_,
                   elapsed_ms, entry_price_, position_filled_,
                   waiting_for_close_, trigger_martingale_on_close_>>

\* a tick that returns early but re-arms state_entry_time_
TickNoOp_rearms ==
    /\ sent' = <<>>
    /\ elapsed_ms' = 0
    /\ UNCHANGED <<order_buffer_, current_state_, active_order_id_,
                   active_exit_order_id_, active_order_price_, current_qty_,
                   martingale_step_, is_short_, entry_price_, position_filled_,
                   waiting_for_close_, trigger_martingale_on_close_>>

TickNoOp ==
    /\ sent' = <<>>
    /\ UNCHANGED engine

\* what the tick's manage_open_position finds in the books it reads: "none"
\* when it does not run or returns before reading, "no_book" when a side of b2
\* is missing, "above" when the mark is above the stop, "stop" when the stop
\* is hit and close_position finds both sides in b3, "stop_no_book" when it
\* does not
Seen(b1, b2, b3) ==
    IF ~(/\ validate_market_data(b1)
         /\ current_state_ = "IN_POSITION"
         /\ position_filled_
         /\ ~(elapsed_ms < SETTLE_MS))
    THEN "none"
    ELSE IF ~get_best_bid(b2) \/ ~get_best_ask(b2) THEN "no_book"
    ELSE IF ~stop_loss_hit(b2) THEN "above"
    ELSE IF ~get_best_bid(b3) \/ ~get_best_ask(b3) THEN "stop_no_book"
    ELSE "stop"

\* TradingEngine::run_trading_cycle.  validate_market_data reads book b1;
\* the handler the state selects reads the book again (b2, and b3 in
\* close_position), and the ingest thread may have replaced it in between.
run_trading_cycle(b1, b2, b3) ==
    /\ ev' = [op |-> "tick", n |-> 1 - ev.n, seen |-> Seen(b1, b2, b3),
              filled |-> EmptyId, returned |-> EmptyId]
    /\ UNCHANGED <<sys_clock, aux>>
    /\ IF ~validate_market_data(b1)
       THEN TickNoOp
       ELSE \/ /\ current_state_ = "IDLE"
               /\ IF ~waiting_for_close_
                  THEN evaluate_entry_signal(b2)
                  ELSE TickNoOp
            \/ /\ current_state_ \in {"PLACING_ORDER", "CANCELLING"}
               /\ handle_timeout
            \/ /\ current_state_ = "WORKING"
               /\ monitor_working_order(b2)
            \/ /\ current_state_ = "IN_POSITION"
               /\ manage_open_position(b2, b3)
            \/ /\ current_state_ = "RECOVERING"
               /\ apply_martingale_recovery
    /\ loss' = IF current_state_ = "IDLE" /\ current_state_' = "PLACING_ORDER"
               THEN NoLoss ELSE loss

\* whether a tick that validated b1 reads the book a second time, and whether
\* one that then read b2 goes on to close_position
reads_again(b1) ==
    /\ validate_market_data(b1)
    /\ \/ current_state_ = "IDLE" /\ ~waiting_for_close_
       \/ current_state_ = "WORKING" /\ ~(elapsed_ms > STALE_MS)
                                     /\ ~(elapsed_ms < GRACE_MS)
       \/ current_state_ = "IN_POSITION" /\ position_filled_
                                         /\ ~(elapsed_ms < SETTLE_MS)
reads_in_close(b1, b2) ==
    /\ reads_again(b1)
    /\ current_state_ = "IN_POSITION"
    /\ get_best_bid(b2) /\ get_best_ask(b2)
    /\ stop_loss_hit(b2)

\* one tick; a book the tick does not read is not chosen
Tick == \E b1 \in Books :
        \E b2 \in IF reads_again(b1) THEN FeedReach(b1) ELSE {b1} :
        \E b3 \in IF reads_in_close(b1, b2) THEN FeedReach(b2) ELSE {b2} :
           run_trading_cycle(b1, b2, b3)

----------------------------------------------------------------------------
(* The order-status callback *)

\* a take-profit price above the entry whatever the direction
target_price_always_up == entry_price_ * (RateScale + profit_target_percent_)

\* the take-profit price on_order_update posts after an entry fill, times
\* RateScale
target_price ==
    IF is_short_ THEN entry_price_ * (RateScale - profit_target_percent_)
                 ELSE entry_price_ * (RateScale + profit_target_percent_)

\* on_order_update, status "New"
OnNew(order_id) ==
    IF current_state_ = "PLACING_ORDER" /\ order_id = active_order_id_
    THEN /\ current_state_' = "WORKING"
         /\ elapsed_ms' = 0
         /\ sent' = <<>>
         /\ UNCHANGED <<order_buffer_, active_order_id_, active_exit_order_id_,
                        active_order_price_, current_qty_, martingale_step_,
                        is_short_, entry_price_, position_filled_,
                        waiting_for_close_, trigger_martingale_on_close_>>
    ELSE /\ sent' = <<>>
         /\ UNCHANGED engine

\* CASE A that counts the loss but keeps the size
OnCloseFilled_keeps_size ==
    /\ waiting_for_close_' = FALSE
    /\ position_filled_' = FALSE
    /\ active_exit_order_id_' = EmptyId
    /\ sent' = <<>>
    /\ IF trigger_martingale_on_close_
       THEN /\ martingale_step_ < max_martingale_steps_ + StepSlack
            /\ martingale_step_' = martingale_step_ + 1
            /\ is_short_' = ~is_short_
            /\ trigger_martingale_on_close_' = FALSE
            /\ current_state_' = "IDLE"
            /\ UNCHANGED current_qty_
       ELSE /\ martingale_step_' = 0
            /\ current_qty_' = base_quantity_
            /\ current_state_' = "IDLE"
            /\ UNCHANGED <<is_short_, trigger_martingale_on_close_>>
    /\ UNCHANGED <<order_buffer_, active_order_id_, active_order_price_, elapsed_ms,
                   entry_price_>>

\* CASE A that doubles the size but keeps the direction
OnCloseFilled_keeps_direction ==
    /\ waiting_for_close_' = FALSE
    /\ position_filled_' = FALSE
    /\ active_exit_order_id_' = EmptyId
    /\ sent' = <<>>
    /\ IF trigger_martingale_on_close_
       THEN /\ martingale_step_ < max_martingale_steps_ + StepSlack
            /\ martingale_step_' = martingale_step_ + 1
            /\ current_qty_' = current_qty_ * 2
            /\ trigger_martingale_on_close_' = FALSE
            /\ current_state_' = "IDLE"
            /\ UNCHANGED is_short_
       ELSE /\ martingale_step_' = 0
            /\ current_qty_' = base_quantity_
            /\ current_state_' = "IDLE"
            /\ UNCHANGED <<is_short_, trigger_martingale_on_close_>>
    /\ UNCHANGED <<order_buffer_, active_order_id_, active_order_price_, elapsed_ms,
                   entry_price_>>

\* on_order_update, status "Filled", CASE A: a close order filled
OnCloseFilled ==
    /\ waiting_for_close_' = FALSE
    /\ position_filled_' = FALSE
    /\ active_exit_order_id_' = EmptyId
    /\ sent' = <<>>
    /\ IF trigger_martingale_on_close_
       THEN /\ martingale_step_ < max_martingale_steps_ + StepSlack  \* bound
            /\ martingale_step_' = martingale_step_ + 1
            /\ current_qty_' = current_qty_ * 2
            /\ is_short_' = ~is_short_
            /\ trigger_martingale_on_close_' = FALSE
            /\ current_state_' = "IDLE"
       ELSE /\ martingale_step_' = 0
            /\ current_qty_' = base_quantity_
            /\ current_state_' = "IDLE"
            /\ UNCHANGED <<is_short_, trigger_martingale_on_close_>>
    /\ UNCHANGED <<order_buffer_, active_order_id_, active_order_price_, elapsed_ms,
                   entry_price_>>

\* on_order_update, status "Filled", CASE B: the entry filled
OnEntryFilled ==
    IF position_filled_
    THEN /\ sent' = <<>>
         /\ UNCHANGED engine
    ELSE /\ position_filled_' = TRUE
         /\ current_state_' = "IN_POSITION"
         /\ active_exit_order_id_' = generate_id
         /\ sent' = <<PlaceReq(IF is_short_ THEN "Buy" ELSE "Sell", current_qty_,
                               target_price, generate_id, TRUE)>>
         /\ UNCHANGED <<order_buffer_, active_order_id_, active_order_price_, elapsed_ms,
                        current_qty_, martingale_step_, is_short_, entry_price_,
                        waiting_for_close_, trigger_martingale_on_close_>>

\* the Cancelled/Rejected case whose last branch goes to IDLE without
\* resetting position_filled_
OnCancelledOrRejected_keeps_filled(order_id) ==
    /\ sent' = <<>>
    /\ IF order_id = active_exit_order_id_
       THEN /\ active_exit_order_id_' = EmptyId
            /\ current_state_' = "IN_POSITION"
            /\ UNCHANGED <<waiting_for_close_, position_filled_>>
       ELSE IF waiting_for_close_
       THEN /\ current_state_' = "IN_POSITION"
            /\ waiting_for_close_' = FALSE
            /\ UNCHANGED <<active_exit_order_id_, position_filled_>>
       ELSE /\ current_state_' = "IDLE"
            /\ UNCHANGED <<active_exit_order_id_, waiting_for_close_,
                           position_filled_>>
    /\ UNCHANGED <<order_buffer_, active_order_id_, active_order_price_, elapsed_ms,
                   current_qty_, martingale_step_, is_short_, entry_price_,
                   trigger_martingale_on_close_>>

\* on_order_update, status "Cancelled" or "Rejected"
OnCancelledOrRejected(order_id) ==
    /\ sent' = <<>>
    /\ IF order_id = active_exit_order_id_
       THEN /\ active_exit_order_id_' = EmptyId
            /\ current_state_' = "IN_POSITION"
            /\ UNCHANGED <<waiting_for_close_, position_filled_>>
       ELSE IF waiting_for_close_
       THEN /\ current_state_' = "IN_POSITION"
            /\ waiting_for_close_' = FALSE
            /\ UNCHANGED <<active_exit_order_id_, position_filled_>>
       ELSE /\ current_state_' = "IDLE"
            /\ position_filled_' = FALSE
            /\ UNCHANGED <<active_exit_order_id_, waiting_for_close_>>
    /\ UNCHANGED <<order_buffer_, active_order_id_, active_order_price_, elapsed_ms,
                   current_qty_, martingale_step_, is_short_, entry_price_,
                   trigger_martingale_on_close_>>

\* TradingEngine::on_order_update
on_order_update(order_id, status) ==
    IF order_id # active_order_id_ /\ order_id # active_exit_order_id_
    THEN /\ sent' = <<>>
         /\ UNCHANGED engine
    ELSE IF status = "New" THEN OnNew(order_id)
    ELSE IF status = "Filled"
         THEN IF waiting_for_close_ THEN OnCloseFilled
              ELSE IF order_id = active_order_id_ THEN OnEntryFilled
              ELSE /\ sent' = <<>>
                   /\ UNCHANGED engine
    ELSE IF status = "Cancelled" \/ status = "Rejected"
         THEN OnCancelledOrRejected(order_id)
    ELSE /\ sent' = <<>>
         /\ UNCHANGED engine

\* the callback the constructor registers with the trade client
OrderUpdateCallback(id, status, sym) ==
    /\ ev' = [op |-> "status", n |-> 1 - ev.n, seen |-> "none",
              filled |-> IF /\ status = "Filled"
                            /\ sym = symbol_ \/ (sym = "" /\ id = active_order_id_)
                            /\ id = active_order_id_ \/ id = active_exit_order_id_
                         THEN id ELSE EmptyId,
              returned |-> IF /\ status \in {"Cancelled", "Rejected"}
                              /\ sym = symbol_ \/ (sym = "" /\ id = active_order_id_)
                              /\ id = active_order_id_
                              /\ id # active_exit_order_id_
                              /\ waiting_for_close_
                           THEN id ELSE EmptyId]
    /\ UNCHANGED <<sys_clock, aux>>
    /\ IF sym = symbol_ \/ (sym = "" /\ id = active_order_id_)
       THEN on_order_update(id, status)
       ELSE /\ sent' = <<>>
            /\ UNCHANGED engine
    /\ loss' = IF ~loss.some /\ martingale_step_' = martingale_step_ + 1
               THEN [some |-> TRUE, short |-> is_short_, qty |-> current_qty_,
                     step |-> martingale_step_]
               ELSE loss

OrderStatus == \E id \in Ids, status \in Statuses, sym \in Symbols :
                  OrderUpdateCallback(id, status, sym)

----------------------------------------------------------------------------
(* Environment *)

\* steady_clock moves on
TimePasses ==
    /\ \E t \in ElapsedPoints : t > elapsed_ms /\ elapsed_ms' = t
    /\ UNCHANGED <<order_buffer_, current_state_, active_order_id_, active_exit_order_id_,
                   active_order_price_, current_qty_, martingale_step_,
                   is_short_, entry_price_, position_filled_,
                   waiting_for_close_, trigger_martingale_on_close_,
                   sys_clock, sent, ev, loss, aux>>

\* system_clock moves on
ClockAdvance ==
    /\ sys_clock < MaxClock
    /\ sys_clock' = sys_clock + 1
    /\ UNCHANGED <<engine, sent, ev, loss, aux>>

Next == Tick \/ OrderStatus \/ TimePasses \/ ClockAdvance

Spec == Init /\ [][Next]_vars

\* the engine has not yet generated an id for an entry or a close of its own
BeforeFirstOrder == active_order_id_ \in {EmptyId, RecoveredId}

TickRecover == BeforeFirstOrder /\ Tick
OrderStatusRecover == BeforeFirstOrder /\ OrderStatus

NextRecover == TickRecover \/ OrderStatusRecover \/ TimePasses \/ ClockAdvance

\* the engine constructed over a buffer that may hold a record, followed up
\* to the first entry or close it places itself
SpecRecover == InitRecover /\ [][NextRecover]_vars

----------------------------------------------------------------------------
(* The tick and the callback on their two threads.  Nothing orders the
   strategy thread's run_trading_cycle and the execution thread's callback:
   the engine holds no lock, and only current_state_ is atomic.  Here the
   callback may run between the tick's load of current_state_ for its switch
   and the handler the switch selects. *)

\* the switch of run_trading_cycle on the state st it has loaded
run_handler(st, b2, b3) ==
    \/ /\ st = "IDLE"
       /\ IF ~waiting_for_close_
          THEN evaluate_entry_signal(b2)
          ELSE TickNoOp
    \/ /\ st \in {"PLACING_ORDER", "CANCELLING"}
       /\ handle_timeout
    \/ /\ st = "WORKING"
       /\ monitor_working_order(b2)
    \/ /\ st = "IN_POSITION"
       /\ manage_open_position(b2, b3)
    \/ /\ st = "RECOVERING"
       /\ apply_martingale_recovery

\* run_trading_cycle up to the load of current_state_
TickBegin ==
    /\ tick_state = "none"
    /\ \E b1 \in Books :
          IF ~validate_market_data(b1)
          THEN /\ TickNoOp
               /\ ev' = [op |-> "tick", n |-> 1 - ev.n, seen |-> "none",
                             filled |-> EmptyId, returned |-> EmptyId]
               /\ UNCHANGED tick_state
          ELSE /\ tick_state' = current_state_
               /\ UNCHANGED <<engine, sent, ev>>
    /\ UNCHANGED <<sys_clock, loss, book, services>>

\* run_trading_cycle from the switch on
TickEnd ==
    /\ tick_state # "none"
    /\ \E b2 \in {b \in Books : b.bid.count > 0 /\ b.ask.count > 0} :
       \E b3 \in FeedReach(b2) :
          run_handler(tick_state, b2, b3)
    /\ ev' = [op |-> "tick", n |-> 1 - ev.n, seen |-> "none",
                             filled |-> EmptyId, returned |-> EmptyId]
    /\ tick_state' = "none"
    /\ loss' = IF tick_state = "IDLE" /\ current_state_' = "PLACING_ORDER"
               THEN NoLoss ELSE loss
    /\ UNCHANGED <<sys_clock, book, services>>

NextConc == TickBegin \/ TickEnd \/ OrderStatus \/ TimePasses \/ ClockAdvance

SpecConc == Init /\ [][NextConc]_vars

----------------------------------------------------------------------------
(* The order book between its two threads: the ingest thread runs
   handle_message, which calls update_bids, update_asks and increment_update;
   the trading thread calls get_best_bid and get_best_ask.  The arrays are
   plain memory, the counts and the update counter are atomics; each access
   to the shared object is one step. *)

trading == <<engine, sys_clock, sent, ev, loss, tick_state>>

Min(a, b) == IF a < b THEN a ELSE b

\* a count the update stores one short
LevelCount_one_short(levels) == Min(Len(levels), MAX_LEVELS - 1)

\* update_bids / update_asks: count = std::min(size, MAX_LEVELS)
LevelCount(levels) == Min(Len(levels), MAX_LEVELS)

\* handle_message once bids and asks are parsed: nothing to do for a message
\* with neither, else on to the updates
handle_message ==
    /\ feed.pc = "idle"
    /\ \E msg \in FeedMessages :
          IF msg.bids = <<>> /\ msg.asks = <<>>
          THEN feed' = [FeedIdle EXCEPT !.last = "skipped"]
          ELSE /\ update_id_ < MaxUpdates
               /\ feed' = [feed EXCEPT
                     !.pc = IF msg.bids # <<>> THEN "update_bids"
                            ELSE "update_asks",
                     !.bids = msg.bids, !.asks = msg.asks, !.i = 0,
                     !.start = update_id_, !.last = "none"]
    /\ UNCHANGED <<bids_, asks_, bid_count_, ask_count_, update_id_, reader,
                   published, trading, services>>

\* OrderBook::update_bids: one entry per step, then the fence and the store
\* of the count
update_bids ==
    /\ feed.pc = "update_bids"
    /\ IF feed.i < LevelCount(feed.bids)
       THEN /\ bids_' = [bids_ EXCEPT ![feed.i + 1] = feed.bids[feed.i + 1]]
            /\ feed' = [feed EXCEPT !.i = @ + 1]
            /\ UNCHANGED <<bid_count_, published>>
       ELSE /\ bid_count_' = LevelCount(feed.bids)
            /\ published' = [published EXCEPT !.bid = bids_]
            /\ feed' = [feed EXCEPT
                  !.pc = IF feed.asks # <<>> THEN "update_asks"
                         ELSE "increment_update",
                  !.i = 0]
            /\ UNCHANGED bids_
    /\ UNCHANGED <<asks_, ask_count_, update_id_, reader, trading, services>>

\* OrderBook::update_asks
update_asks ==
    /\ feed.pc = "update_asks"
    /\ IF feed.i < LevelCount(feed.asks)
       THEN /\ asks_' = [asks_ EXCEPT ![feed.i + 1] = feed.asks[feed.i + 1]]
            /\ feed' = [feed EXCEPT !.i = @ + 1]
            /\ UNCHANGED <<ask_count_, published>>
       ELSE /\ ask_count_' = LevelCount(feed.asks)
            /\ published' = [published EXCEPT !.ask = asks_]
            /\ feed' = [feed EXCEPT !.pc = "increment_update", !.i = 0]
            /\ UNCHANGED asks_
    /\ UNCHANGED <<bids_, bid_count_, update_id_, reader, trading, services>>

\* a counter left as it was
fetch_add_nothing == update_id_' = update_id_

\* update_id_.fetch_add(1)
fetch_add == update_id_' = update_id_ + 1

\* OrderBook::increment_update, and handle_message returns
increment_update ==
    /\ feed.pc = "increment_update"
    /\ fetch_add
    /\ feed' = [FeedIdle EXCEPT !.last = "counted"]
    /\ UNCHANGED <<bids_, asks_, bid_count_, ask_count_, reader, published,
                   trading, services>>

\* what get_best_bid / get_best_ask answers from the count and the fields it
\* has loaded
best_found(side, lv) ==
    IF side = "bid" THEN get_best_bid([bid |-> lv, ask |-> NoLevel])
    ELSE get_best_ask([bid |-> NoLevel, ask |-> lv])

\* get_best_bid / get_best_ask: the acquire load of the count; a zero count
\* returns false at once
load_count(side) ==
    /\ reader.pc = "idle"
    /\ LET count == IF side = "bid" THEN bid_count_ ELSE ask_count_
           seen == [count |-> count, price |-> 0, qty |-> 0]
           first == published[side][1]
       IN  reader' = [pc |-> IF count > 0 THEN "price" ELSE "idle",
                      side |-> side,
                      seen |-> seen,
                      known |-> [count |-> count, price |-> first.price,
                                 qty |-> first.quantity],
                      found |-> best_found(side, seen),
                      called |-> TRUE]
    /\ UNCHANGED <<bids_, asks_, bid_count_, ask_count_, update_id_, feed,
                   published, trading, services>>

get_best_load == \E side \in {"bid", "ask"} : load_count(side)

\* price = bids_[0].price
get_best_price ==
    /\ reader.pc = "price"
    /\ LET first == IF reader.side = "bid" THEN bids_[1] ELSE asks_[1]
       IN  reader' = [reader EXCEPT !.pc = "quantity",
                                    !.seen.price = first.price]
    /\ UNCHANGED <<bids_, asks_, bid_count_, ask_count_, update_id_, feed,
                   published, trading, services>>

\* qty = bids_[0].quantity, and the two tests that decide the answer
get_best_quantity ==
    /\ reader.pc = "quantity"
    /\ LET first == IF reader.side = "bid" THEN bids_[1] ELSE asks_[1]
           seen == [reader.seen EXCEPT !.qty = first.quantity]
       IN  reader' = [reader EXCEPT !.pc = "idle", !.seen = seen,
                                    !.found = best_found(reader.side, seen)]
    /\ UNCHANGED <<bids_, asks_, bid_count_, ask_count_, update_id_, feed,
                   published, trading, services>>

NextBook ==
    \/ handle_message \/ update_bids \/ update_asks \/ increment_update
    \/ get_best_load \/ get_best_price \/ get_best_quantity

SpecBook == Init /\ [][NextBook]_vars

----------------------------------------------------------------------------
(* AeronPublisher: the calls on the order buffer, each under buffer_mutex_,
   and publish *)

but_buffer == <<trading, book, session, proc, codec, venue>>

\* results publication_->offer can give: a position > 0, or a negative code
OfferResults == {"position", "BACK_PRESSURED", "NOT_CONNECTED"}
\* how many offers in a row the model draws results for
MaxOffers == 4

OfferRuns == UNION {[1 .. n -> OfferResults] : n \in 1 .. MaxOffers}

\* AeronPublisher::publish: no publication, or one offer
publish(has_publication, offers) ==
    pub_call' = [called |-> TRUE, publication |-> has_publication,
                 offers |-> offers,
                 attempts |-> IF has_publication THEN 1 ELSE 0,
                 ret |-> has_publication /\ offers[1] = "position"]

Publish ==
    /\ \E has_publication \in BOOLEAN, offers \in OfferRuns :
          publish(has_publication, offers)
    /\ UNCHANGED <<order_map, buf_call, but_buffer>>

\* AeronPublisher::publish_order: publish the serialised record, then store
\* it under the key made from its symbol
publish_order(order) ==
    /\ \E has_publication \in BOOLEAN,
          offers \in {<<"position">>, <<"BACK_PRESSURED">>} :
          publish(has_publication, offers)
    /\ order_map' = assign(order_map, c_str(order.symbol), order)
    /\ buf_call' = [op |-> "publish_order", key |-> c_str(order.symbol),
                    arg |-> order, ret |-> EmptyRecord, ok |-> pub_call'.ret]
    /\ UNCHANGED but_buffer

PublishOrder == \E order \in OrderRecords : publish_order(order)

\* AeronPublisher::update_order_in_buffer
UpdateOrderInBuffer ==
    /\ \E key \in BufferKeys, order \in OrderRecords :
          /\ order_map' = assign(order_map, key, order)
          /\ buf_call' = [op |-> "update_order_in_buffer", key |-> key,
                          arg |-> order, ret |-> EmptyRecord, ok |-> TRUE]
    /\ UNCHANGED <<pub_call, but_buffer>>

\* AeronPublisher::has_order_in_buffer(symbol)
HasOrderInBuffer ==
    /\ \E key \in BufferKeys :
          buf_call' = [op |-> "has_order_in_buffer", key |-> key,
                       arg |-> EmptyRecord, ret |-> EmptyRecord,
                       ok |-> has_order_in_buffer(stored(order_map, key))]
    /\ UNCHANGED <<order_map, pub_call, but_buffer>>

\* AeronPublisher::get_order_from_buffer(symbol)
GetOrderFromBuffer ==
    /\ \E key \in BufferKeys :
          buf_call' = [op |-> "get_order_from_buffer", key |-> key,
                       arg |-> EmptyRecord,
                       ret |-> get_order_from_buffer(stored(order_map, key)),
                       ok |-> TRUE]
    /\ UNCHANGED <<order_map, pub_call, but_buffer>>

\* AeronPublisher::remove_order_from_buffer(symbol)
RemoveOrderFromBuffer ==
    /\ \E key \in BufferKeys :
          /\ order_map' =
                IF find(order_map, key) = 0 THEN order_map
                ELSE [order_map EXCEPT ![find(order_map, key)].rec =
                         remove_order_from_buffer(@)]
          /\ buf_call' = [op |-> "remove_order_from_buffer", key |-> key,
                          arg |-> EmptyRecord, ret |-> EmptyRecord,
                          ok |-> TRUE]
    /\ UNCHANGED <<pub_call, but_buffer>>

NextBuffer ==
    \/ PublishOrder \/ UpdateOrderInBuffer \/ HasOrderInBuffer
    \/ GetOrderFromBuffer \/ RemoveOrderFromBuffer

SpecBuffer == Init /\ [][NextBuffer]_vars

\* publish called on its own, as SBE bytes are sent
SpecPublish == Init /\ [][Publish]_vars

----------------------------------------------------------------------------
(* BybitWebSocketClient: callback_function on one session, and where
   handle_message sends what it has parsed *)

but_session == <<trading, book, order_map, buf_call, pub_call, proc, codec,
                 venue>>

\* fragments one message may arrive in
MaxFragments == 3

\* what the venue sends: the subscription answer, orderbook data, execution
\* reports, and the acknowledgements of auth, order.create and order.cancel
VenueMessages ==
    {[kind |-> "subscribe", retCode |-> 0, id |-> 0],
     [kind |-> "orderbook", retCode |-> 0, id |-> 0],
     [kind |-> "execution", retCode |-> 0, id |-> 1]}
    \cup {[kind |-> k, retCode |-> rc, id |-> 1] :
             k \in {"order.create", "order.cancel"}, rc \in {0, 1}}
    \cup {[kind |-> "auth", retCode |-> rc, id |-> 0] : rc \in {0, 1}}

\* fragment k of the n a message is cut into
Fragment(msg, k, n) == [msg |-> msg, k |-> k, of |-> n]

\* the bytes of a whole message, as the fragments in order
WholeMessage(msg, n) == [k \in 1 .. n |-> Fragment(msg, k, n)]

\* simdjson on the buffer: a document when the buffer holds exactly one
\* whole message, a parse error otherwise
IsDocument(buf) ==
    /\ buf # <<>>
    /\ buf = WholeMessage(buf[1].msg, buf[1].of)

\* handle_message up to the topic test: the subscription answer is logged,
\* a document without "topic" or with another topic than orderbook is
\* dropped, orderbook data goes on to the book; handle_order_update is not
\* called
route(buf) ==
    IF ~IsDocument(buf) THEN "parse error"
    ELSE IF buf[1].msg.kind = "subscribe" THEN "logged"
    ELSE IF buf[1].msg.kind = "orderbook" THEN "orderbook"
    ELSE "dropped"

\* the statuses handle_message hands to the order callback for a buffer
callbacks(buf) == <<>>

\* a final fragment that leaves the buffer as it is
after_final_keeps(buf) == buf

\* rx_buffer.clear() after handle_message
after_final(buf) == <<>>

\* LWS_CALLBACK_CLIENT_ESTABLISHED.  rx_buffer lives in session memory that
\* libwebsockets hands out zeroed and never constructs: clear() on it either
\* works as on an empty string or faults, by the library's string layout.
ClientEstablished ==
    /\ session.link \in {"connecting", "closed", "error"}
    /\ \/ session' = [session EXCEPT !.link = "open", !.rx_buffer = <<>>,
                                     !.parsed = <<>>, !.routed = "none",
                                     !.emitted = <<>>]
       \/ /\ session.link = "connecting"
          /\ session' = [session EXCEPT !.link = "fault"]
    /\ UNCHANGED but_session

\* the venue starts a message of n fragments
VenueSends ==
    /\ session.link = "open"
    /\ session.wire.next = 0
    /\ \E msg \in VenueMessages, n \in 1 .. MaxFragments :
          session' = [session EXCEPT !.wire = [msg |-> msg, of |-> n,
                                               next |-> 1]]
    /\ UNCHANGED but_session

\* LWS_CALLBACK_CLIENT_RECEIVE with the next fragment of the message
ClientReceive ==
    /\ session.link = "open"
    /\ session.wire.next > 0
    /\ LET w == session.wire
           buf == Append(session.rx_buffer, Fragment(w.msg, w.next, w.of))
           final == w.next = w.of
       IN  session' =
             [session EXCEPT
                !.rx_buffer = IF final THEN after_final(buf) ELSE buf,
                !.parsed = IF final THEN <<buf>> ELSE <<>>,
                !.routed = IF final THEN route(buf) ELSE "none",
                !.emitted = IF final THEN callbacks(buf) ELSE <<>>,
                !.wire = IF final THEN [w EXCEPT !.next = 0]
                         ELSE [w EXCEPT !.next = @ + 1]]
    /\ UNCHANGED but_session

\* rx_buffer.clear() on LWS_CALLBACK_CLIENT_CLOSED
closed(buf) == <<>>

\* LWS_CALLBACK_CLIENT_CLOSED; what was left of a message on the wire is lost
ClientClosed ==
    /\ session.link = "open"
    /\ session' = [session EXCEPT !.link = "closed",
                                  !.rx_buffer = closed(session.rx_buffer),
                                  !.parsed = <<>>, !.routed = "none",
                                  !.emitted = <<>>,
                                  !.wire = [@ EXCEPT !.next = 0]]
    /\ UNCHANGED but_session

\* LWS_CALLBACK_CLIENT_CONNECTION_ERROR: logged, the buffer is not touched
ClientConnectionError ==
    /\ session.link \in {"connecting", "closed"}
    /\ session' = [session EXCEPT !.link = "error"]
    /\ UNCHANGED but_session

NextSession ==
    \/ ClientEstablished \/ VenueSends \/ ClientReceive \/ ClientClosed
    \/ ClientConnectionError

SpecSession == Init /\ [][NextSession]_vars

----------------------------------------------------------------------------
(* main: start, connection wait, strategy loop and shutdown, with the
   service threads *)

but_proc == <<trading, book, order_map, buf_call, pub_call, session, codec,
              venue>>

\* iterations of the connection wait
CONNECTION_TIMEOUT == 100

\* cycles of the strategy loop that are counted
MaxLoop == 2

\* signal_handler: SIGINT or SIGTERM
SignalHandler ==
    /\ proc.g_running
    /\ proc.main # "returned"
    /\ proc' = [proc EXCEPT !.g_running = FALSE]
    /\ UNCHANGED but_proc

\* aeron_publisher->init() succeeds or not
MainInitAeron ==
    /\ proc.main = "init"
    /\ \E ok \in BOOLEAN :
          proc' = [proc EXCEPT !.main = "wait", !.aeron_enabled = ok]
    /\ UNCHANGED but_proc

\* the connection becomes usable: connected_ is set
Connected(c) ==
    /\ proc.thread[c] = "running"
    /\ proc.running_[c]
    /\ ~proc.connected_[c]
    /\ proc' = [proc EXCEPT !.connected_[c] = TRUE]
    /\ UNCHANGED but_proc

\* one test of the wait loop: while ((!public || !trade) && g_running)
MainWait ==
    /\ proc.main = "wait"
    /\ IF (\E c \in Clients : ~proc.connected_[c]) /\ proc.g_running
         THEN IF proc.connection_timeout > CONNECTION_TIMEOUT
                THEN proc' = [proc EXCEPT !.connection_timeout = @ + 1,
                                           !.g_running = FALSE,
                                           !.main = "check"]
                ELSE proc' = [proc EXCEPT !.connection_timeout = @ + 1]
         ELSE proc' = [proc EXCEPT !.main = "check"]
    /\ UNCHANGED but_proc

\* if (!g_running) { stop both; ... } else authenticate, subscribe, engine
MainCheck ==
    /\ proc.main = "check"
    /\ IF ~proc.g_running
         THEN proc' = [proc EXCEPT !.running_ = [c \in Clients |-> FALSE],
                                    !.main = "early_join_public"]
         ELSE proc' = [proc EXCEPT !.main = "start_aeron"]
    /\ UNCHANGED but_proc

\* the Aeron service thread is started when Aeron is enabled
MainStartAeron ==
    /\ proc.main = "start_aeron"
    /\ proc' = [proc EXCEPT !.main = "loop",
                            !.aeron_thread = IF proc.aeron_enabled
                                               THEN "running" ELSE "none"]
    /\ UNCHANGED but_proc

\* one test of while (g_running) and one cycle; then both clients stopped
MainLoop ==
    /\ proc.main = "loop"
    /\ IF proc.g_running
         THEN proc' = [proc EXCEPT
                         !.loop_count = IF @ < MaxLoop THEN @ + 1 ELSE @]
         ELSE proc' = [proc EXCEPT !.running_ = [c \in Clients |-> FALSE],
                                    !.main = "join_public"]
    /\ UNCHANGED but_proc

\* thread.join(): returns when the thread has ended
MainJoin(c) ==
    /\ proc.main \in {"join_" \o c, "early_join_" \o c}
    /\ proc.thread[c] = "done"
    /\ proc' = [proc EXCEPT
                  !.joined[c] = TRUE,
                  !.main = IF c = "public"
                             THEN IF proc.main = "join_public"
                                    THEN "join_trade" ELSE "early_join_trade"
                             ELSE IF proc.main = "join_trade"
                                    THEN "join_aeron" ELSE "returned",
                  !.exit = IF proc.main = "early_join_trade" THEN 1 ELSE @]
    /\ UNCHANGED but_proc

\* if (aeron_service_thread.joinable()) join; return 0
MainJoinAeron ==
    /\ proc.main = "join_aeron"
    /\ proc.aeron_thread # "running"
    /\ proc' = [proc EXCEPT !.aeron_joined = proc.aeron_thread = "done",
                            !.main = "returned", !.exit = 0]
    /\ UNCHANGED but_proc

\* BybitWebSocketClient::run: while (running_) lws_service(context_, 50)
ClientRun(c) ==
    /\ proc.thread[c] = "running"
    /\ IF proc.running_[c]
         THEN UNCHANGED proc
         ELSE proc' = [proc EXCEPT !.thread[c] = "done"]
    /\ UNCHANGED but_proc

\* the Aeron service thread: while (g_running) service_context, sleep
AeronRun ==
    /\ proc.aeron_thread = "running"
    /\ IF proc.g_running
         THEN UNCHANGED proc
         ELSE proc' = [proc EXCEPT !.aeron_thread = "done"]
    /\ UNCHANGED but_proc

NextMain ==
    \/ SignalHandler \/ MainInitAeron \/ MainWait \/ MainCheck
    \/ MainStartAeron \/ MainLoop \/ MainJoinAeron \/ AeronRun
    \/ \E c \in Clients : Connected(c) \/ MainJoin(c) \/ ClientRun(c)

SpecMain == Init /\ [][NextMain]_vars

----------------------------------------------------------------------------
(* SBEEncoder: the three templates, byte by byte *)

but_codec == <<trading, book, order_map, buf_call, pub_call, session, proc,
               venue>>

\* static_cast<uint16_t>
u16(n) == n % 65536

\* the n bytes of an unsigned integer as memcpy lays them out (low byte first)
RECURSIVE le_bytes(_, _)
le_bytes(v, n) == IF n = 0 THEN <<>> ELSE <<v % 256>> \o le_bytes(v \div 256, n - 1)

\* the doubles used, with their IEEE 754 bytes in memory order
Doubles == {"0.0", "0.5", "1.0", "2.0"}
ieee754(d) ==
    CASE d = "0.0" -> <<0, 0, 0, 0, 0, 0, 0, 0>>
      [] d = "0.5" -> <<0, 0, 0, 0, 0, 0, 224, 63>>
      [] d = "1.0" -> <<0, 0, 0, 0, 0, 0, 240, 63>>
      [] d = "2.0" -> <<0, 0, 0, 0, 0, 0, 0, 64>>

\* std::string values by their chars: "", "B", "BT", and two of 65536 and
\* 65537 chars
LongString == [i \in 1 .. 65536 |-> 65]
SymbolStrings == {<<>>, <<66>>, <<66, 84>>, LongString, Append(LongString, 66)}
OrderIds == {<<49>>, <<49, 50>>}
Sides == {<<66, 117, 121>>, <<83, 101, 108, 108>>}
Timestamps == {0, 258}
Levels == {<<>>, <<<<"1.0", "0.5">>>>, <<<<"1.0", "0.5">>, <<"2.0", "1.0">>>>}

\* reset(): offset_ = 0, the buffer keeps its size
reset(e) == [bytes |-> <<>>, capacity |-> e.capacity, overrun |-> FALSE]

\* the size test of every writer, then the copy: the buffer is doubled once
\* when the bytes do not fit; bytes that still do not fit are written past
\* its end
write(e, bs) ==
    LET cap == IF Len(e.bytes) + Len(bs) > e.capacity
                 THEN e.capacity * 2 ELSE e.capacity
    IN  [bytes |-> e.bytes \o bs, capacity |-> cap,
         overrun |-> e.overrun \/ Len(e.bytes) + Len(bs) > cap]

write_uint8(e, v) == write(e, le_bytes(v, 1))
write_uint16(e, v) == write(e, le_bytes(v, 2))
write_uint64(e, v) == write(e, le_bytes(v, 8))
write_double(e, d) == write(e, ieee754(d))

\* write_string: the length as uint16_t, then that many chars
write_string(e, str) ==
    write(write_uint16(e, u16(Len(str))), SubSeq(str, 1, u16(Len(str))))

header(e, block, template) ==
    write_uint16(write_uint16(write_uint16(write_uint16(e, block), template), 1), 0)

RECURSIVE write_levels(_, _)
write_levels(e, levels) ==
    IF levels = <<>> THEN e
    ELSE write_levels(write_double(write_double(e, Head(levels)[1]),
                                   Head(levels)[2]), Tail(levels))

group(e, levels) ==
    write_levels(write_uint16(write_uint16(e, 16), u16(Len(levels))), levels)

encode_orderbook_snapshot(e, timestamp, bids, asks, symbol) ==
    LET h == write_uint64(header(reset(e), 48, 2), timestamp)
        c == write_uint16(write_uint16(h, u16(Len(bids))), u16(Len(asks)))
    IN  write_string(group(group(c, bids), asks), symbol)

encode_trade_signal(e, timestamp, action, price, quantity, symbol) ==
    LET h == write_uint64(header(reset(e), 32, 3), timestamp)
    IN  write_string(write_double(write_double(write_uint8(h, action), price),
                                  quantity), symbol)

encode_order(e, timestamp, order_id, symbol, side, price, quantity, is_active) ==
    LET h == write_uint64(header(reset(e), 64, 4), timestamp)
        f == write_uint8(write_double(write_double(h, price), quantity),
                         IF is_active THEN 1 ELSE 0)
    IN  write_string(write_string(write_string(f, order_id), symbol), side)

\* the values of the three templates
SnapshotValues ==
    [template : {2}, timestamp : Timestamps, bids : Levels,
     asks : {<<>>, <<<<"2.0", "0.5">>>>}, symbol : SymbolStrings]
SignalValues ==
    [template : {3}, timestamp : Timestamps, action : {0, 255},
     price : {"1.0", "2.0"}, quantity : {"0.5"}, symbol : SymbolStrings]
OrderValues ==
    [template : {4}, timestamp : {258}, order_id : OrderIds,
     symbol : SymbolStrings, side : Sides, price : {"1.0"},
     quantity : {"0.5"}, is_active : BOOLEAN]

\* encode by template
encode(e, x) ==
    CASE x.template = 2 ->
           encode_orderbook_snapshot(e, x.timestamp, x.bids, x.asks, x.symbol)
      [] x.template = 3 ->
           encode_trade_signal(e, x.timestamp, x.action, x.price, x.quantity,
                               x.symbol)
      [] x.template = 4 ->
           encode_order(e, x.timestamp, x.order_id, x.symbol, x.side, x.price,
                        x.quantity, x.is_active)

Encoded(op, x) ==
    LET e == encode(codec, x)
    IN  codec' = [op |-> op, x |-> x, bytes |-> e.bytes,
                  capacity |-> e.capacity, overrun |-> e.overrun]

EncodeOrderbookSnapshot ==
    /\ \E x \in SnapshotValues : Encoded("encode_orderbook_snapshot", x)
    /\ UNCHANGED but_codec

EncodeTradeSignal ==
    /\ \E x \in SignalValues : Encoded("encode_trade_signal", x)
    /\ UNCHANGED but_codec

EncodeOrder ==
    /\ \E x \in OrderValues : Encoded("encode_order", x)
    /\ UNCHANGED but_codec

NextCodec == EncodeOrderbookSnapshot \/ EncodeTradeSignal \/ EncodeOrder

SpecCodec == Init /\ [][NextCodec]_vars

\* the reader of the layout: header, fixed fields, groups by their count,
\* strings by their length prefix
RECURSIVE from_le(_)
from_le(bs) == IF bs = <<>> THEN 0 ELSE Head(bs) + 256 * from_le(Tail(bs))

read_uint(bs, off, n) == from_le(SubSeq(bs, off, off + n - 1))

read_double(bs, off) ==
    LET b == SubSeq(bs, off, off + 7)
    IN  IF \E d \in Doubles : ieee754(d) = b
          THEN CHOOSE d \in Doubles : ieee754(d) = b ELSE "?"

read_string(bs, off) ==
    [str |-> SubSeq(bs, off + 2, off + 1 + read_uint(bs, off, 2)),
     next |-> off + 2 + read_uint(bs, off, 2)]

read_group(bs, off) ==
    [levels |-> [i \in 1 .. read_uint(bs, off + 2, 2) |->
                   <<read_double(bs, off + 4 + 16 * (i - 1)),
                     read_double(bs, off + 12 + 16 * (i - 1))>>],
     next |-> off + 4 + 16 * read_uint(bs, off + 2, 2)]

decode(bs) ==
    LET template == read_uint(bs, 3, 2)
    IN  CASE template = 2 ->
               LET b == read_group(bs, 21)
                   a == read_group(bs, b.next)
               IN  [template |-> 2, timestamp |-> read_uint(bs, 9, 8),
                    bids |-> b.levels, asks |-> a.levels,
                    symbol |-> read_string(bs, a.next).str]
          [] template = 3 ->
               [template |-> 3, timestamp |-> read_uint(bs, 9, 8),
                action |-> read_uint(bs, 17, 1),
                price |-> read_double(bs, 18),
                quantity |-> read_double(bs, 26),
                symbol |-> read_string(bs, 34).str]
          [] template = 4 ->
               LET o == read_string(bs, 34)
                   y == read_string(bs, o.next)
               IN  [template |-> 4, timestamp |-> read_uint(bs, 9, 8),
                    price |-> read_double(bs, 17),
                    quantity |-> read_double(bs, 25),
                    is_active |-> read_uint(bs, 33, 1) = 1,
                    order_id |-> o.str, symbol |-> y.str,
                    side |-> read_string(bs, y.next).str]
          [] OTHER -> [template |-> 0]

----------------------------------------------------------------------------
(* The engine against an exchange that holds its orders, fills or rejects
   them and reports in order; every request the engine sends reaches it *)

\* order status reports on their way to the engine
MaxReports == 1
\* the largest position the exchange is followed to
MaxPosition == 1

but_venue == <<trading, book, order_map, buf_call, pub_call, session, proc,
               codec>>

\* what the order the last handler placed is for: on_order_update places the
\* take-profit exit, close_position sets waiting_for_close_, and
\* evaluate_entry_signal runs only with it unset
placed_kind ==
    IF ev.op = "status" THEN "exit"
    ELSE IF waiting_for_close_ THEN "close" ELSE "entry"

Report(id, status) == [id |-> id, status |-> status]

\* the exchange takes the requests out in the order sent: a placed order
\* rests, a cancel removes the order if it still rests and is reported
RECURSIVE received(_, _)
received(v, out) ==
    IF out = <<>> THEN v
    ELSE LET r == Head(out)
             w == IF IsPlace(r)
                  THEN [v EXCEPT !.live = @ \cup {[id |-> r.id, side |-> r.side,
                                                   qty |-> r.qty,
                                                   kind |-> placed_kind,
                                                   acked |-> FALSE]}]
                  ELSE IF \E o \in v.live : o.id = r.id
                  THEN [v EXCEPT !.live = {o \in @ : o.id # r.id},
                                 !.reports = Append(@, Report(r.id, "Cancelled"))]
                  ELSE v
         IN  received(w, Tail(out))

\* the requests of the handler that just ran reach the exchange; the report
\* a status handler consumed leaves the queue
VenueReceives ==
    /\ venue.n # ev.n
    /\ venue' = [received([venue EXCEPT !.reports = IF ev.op = "status"
                                                    THEN Tail(@) ELSE @],
                          sent)
                 EXCEPT !.n = ev.n]
    /\ UNCHANGED but_venue

\* the exchange acknowledges a resting order
VenueAcks ==
    /\ venue.n = ev.n /\ Len(venue.reports) < MaxReports
    /\ \E o \in venue.live :
          /\ ~o.acked
          /\ venue' = [venue EXCEPT
                          !.live = (@ \ {o}) \cup {[o EXCEPT !.acked = TRUE]},
                          !.reports = Append(@, Report(o.id, "New"))]
    /\ UNCHANGED but_venue

\* the exchange refuses an order it has not acknowledged
VenueRejects ==
    /\ venue.n = ev.n /\ Len(venue.reports) < MaxReports
    /\ \E o \in venue.live :
          /\ ~o.acked
          /\ venue' = [venue EXCEPT
                          !.live = @ \ {o},
                          !.reports = Append(@, Report(o.id, "Rejected"))]
    /\ UNCHANGED but_venue

\* a resting order fills in full
VenueFills ==
    /\ venue.n = ev.n /\ Len(venue.reports) < MaxReports
    /\ \E o \in venue.live :
          LET pos == venue.pos + (IF o.side = "Buy" THEN o.qty ELSE 0 - o.qty)
          IN  /\ pos \in (0 - MaxPosition) .. MaxPosition
              /\ venue' = [venue EXCEPT
                              !.live = @ \ {o},
                              !.pos = pos,
                              !.entered = IF o.kind = "entry" THEN o.qty ELSE @,
                              !.exited = IF o.kind = "entry" THEN 0
                                         ELSE @ + o.qty,
                              !.reports = Append(@, Report(o.id, "Filled"))]
    /\ UNCHANGED but_venue

\* the oldest report reaches handle_order_update and the callback
VenueReports ==
    /\ venue.n = ev.n /\ venue.reports # <<>>
    /\ OrderUpdateCallback(Head(venue.reports).id, Head(venue.reports).status,
                           symbol_)

\* a tick on a book that passes validation and that the ingest thread does
\* not touch meanwhile
VenueTick ==
    /\ venue.n = ev.n
    /\ \E b \in {c \in Books : validate_market_data(c)} :
          run_trading_cycle(b, b, b)
VenueTimePasses == venue.n = ev.n /\ TimePasses
VenueClockAdvance == venue.n = ev.n /\ ClockAdvance

NextVenue ==
    \/ VenueTick \/ VenueReports \/ VenueReceives
    \/ VenueAcks \/ VenueRejects \/ VenueFills
    \/ VenueTimePasses \/ VenueClockAdvance

SpecVenue == Init /\ [][NextVenue]_vars

----------------------------------------------------------------------------
(* BybitWebSocketClient::handle_message on the text of an orderbook frame:
   the document is walked field by field, and a field that cannot be read
   is skipped *)

\* where the text of a frame stops being JSON: nowhere; where iterate()
\* already fails; at the end of the root object; inside "b" or inside "a"
\* after k of its levels
Defects ==
    {[at |-> w, k |-> 0] : w \in {"none", "iterate", "root"}}
    \cup {[at |-> w, k |-> k] : w \in {"b", "a"}, k \in 0 .. MAX_LEVELS}

\* an orderbook frame: the levels its text holds and its defect
Frames ==
    {f \in [b : {ParsedBids(p, n) : p \in BasePrices, n \in 0 .. MAX_LEVELS},
            a : {ParsedAsks(1, n) : n \in 0 .. MAX_LEVELS},
            defect : Defects] :
        /\ f.defect.at = "b" => f.defect.k <= Len(f.b)
        /\ f.defect.at = "a" => f.defect.k <= Len(f.a)}

\* the levels the loops over "b" and "a" push back: those read before the
\* defect; after it every access reports the error and is skipped
parsed_bids(f) ==
    IF f.defect.at = "b" THEN SubSeq(f.b, 1, f.defect.k) ELSE f.b
parsed_asks(f) ==
    IF f.defect.at = "b" THEN <<>>
    ELSE IF f.defect.at = "a" THEN SubSeq(f.a, 1, f.defect.k) ELSE f.a

\* how handle_message ends: iterate() throws and the catch logs it; no
\* "topic" can be read and it returns; nothing was parsed and it returns; or
\* the book is updated
outcome(f) ==
    IF f.defect.at = "iterate" THEN "caught"
    ELSE IF f.defect.at = "root" THEN "no topic"
    ELSE IF parsed_bids(f) = <<>> /\ parsed_asks(f) = <<>> THEN "skipped"
    ELSE "counted"

\* update_bids / update_asks as a whole: the leading entries and the count
stored_levels(arr, levels) ==
    [i \in Slots |-> IF i <= LevelCount(levels) THEN levels[i] ELSE arr[i]]

\* handle_message(data, len) from the parse to its return
handle_frame(f) ==
    /\ feed.pc = "idle"
    /\ feed' = [FeedIdle EXCEPT !.last = outcome(f)]
    /\ IF outcome(f) = "counted"
       THEN /\ update_id_ < MaxUpdates
            /\ IF parsed_bids(f) # <<>>
               THEN /\ bids_' = stored_levels(bids_, parsed_bids(f))
                    /\ bid_count_' = LevelCount(parsed_bids(f))
               ELSE UNCHANGED <<bids_, bid_count_>>
            /\ IF parsed_asks(f) # <<>>
               THEN /\ asks_' = stored_levels(asks_, parsed_asks(f))
                    /\ ask_count_' = LevelCount(parsed_asks(f))
               ELSE UNCHANGED <<asks_, ask_count_>>
            /\ published' = [bid |-> bids_', ask |-> asks_']
            /\ fetch_add
       ELSE UNCHANGED <<bids_, asks_, bid_count_, ask_count_, update_id_,
                        published>>
    /\ UNCHANGED <<reader, trading, services>>

HandleFrame == \E f \in Frames : handle_frame(f)

SpecFrame == Init /\ [][HandleFrame]_vars

TypeOK ==
    /\ current_state_ \in States
    /\ active_order_id_ \in Ids
    /\ active_exit_order_id_ \in Ids
    /\ elapsed_ms \in ElapsedPoints
    /\ martingale_step_ \in 0 .. (max_martingale_steps_ + StepSlack)
    /\ tick_state \in States \cup {"none"}
    /\ bid_count_ \in 0 .. MAX_LEVELS
    /\ ask_count_ \in 0 .. MAX_LEVELS
    /\ update_id_ \in 0 .. MaxUpdates
    /\ feed.pc \in {"idle", "update_bids", "update_asks", "increment_update"}
    /\ reader.pc \in {"idle", "price", "quantity"}

----------------------------------------------------------------------------
(* Properties *)

\* on_order_update(id, status) runs: the registered callback lets the status
\* through
Delivered(id, status) ==
    \E sym \in Symbols :
        /\ sym = symbol_ \/ (sym = "" /\ id = active_order_id_)
        /\ OrderUpdateCallback(id, status, sym)

Places(out) == SelectSeq(out, IsPlace)
Cancels(out) == SelectSeq(out, IsCancel)

\* C1: a Filled for the resting take-profit exit order, in InPosition with no
\* stop-loss close pending, moves the strategy to Idle.
C1_TakeProfitFillGoesIdle ==
    [][ (/\ ev'.op = "status"
         /\ current_state_ = "IN_POSITION"
         /\ active_order_id_ # EmptyId
         /\ active_exit_order_id_ # EmptyId
         /\ active_exit_order_id_ # active_order_id_
         /\ ~trigger_martingale_on_close_
         /\ Delivered(active_exit_order_id_, "Filled"))
        => current_state_' = "IDLE" ]_vars

\* C2: in Cancelling after a cancel on the entry order, a Rejected for the
\* entry id means the order had filled: the state becomes InPosition, the
\* position is recorded as filled and a take-profit exit order is placed.
C2_CancelRejectedMeansFilled ==
    [][ (/\ ev'.op = "status"
         /\ current_state_ = "CANCELLING"
         /\ ~waiting_for_close_
         /\ active_order_id_ # EmptyId
         /\ Delivered(active_order_id_, "Rejected"))
        => /\ current_state_' = "IN_POSITION"
           /\ position_filled_'
           /\ Len(Places(sent')) = 1 ]_vars

\* what C3 requires of a tick whose stop loss fires: the resting exit is
\* cancelled if there is one, one aggressive close goes out on the side
\* opposite to the position for current_qty_, pending reverse is set and the
\* state is Placing
StopLossFired ==
    /\ Cancels(sent') = IF active_exit_order_id_ # EmptyId
                        THEN <<CancelReq(active_exit_order_id_)>> ELSE <<>>
    /\ Len(Places(sent')) = 1
    /\ Places(sent')[1].side = (IF is_short_ THEN "Buy" ELSE "Sell")
    /\ Places(sent')[1].qty = current_qty_
    /\ ~Places(sent')[1].maker
    /\ trigger_martingale_on_close_'
    /\ current_state_' = "PLACING_ORDER"

StopLossQuiet ==
    /\ sent' = <<>>
    /\ current_state_' = "IN_POSITION"

CloseFillWithReverse ==
    /\ ev'.op = "status"
    /\ waiting_for_close_ /\ trigger_martingale_on_close_
    /\ active_order_id_ # EmptyId
    /\ Delivered(active_order_id_, "Filled")

C5_EscalationOncePerLoss ==
    [][ (/\ ev'.op = "tick"
         /\ current_state_ = "IDLE" /\ current_state_' = "PLACING_ORDER"
         /\ loss.some /\ loss.step < max_martingale_steps_)
        => /\ is_short_' = ~loss.short
           /\ Len(Places(sent')) = 1
           /\ Places(sent')[1].qty = 2 * loss.qty
           /\ martingale_step_' = loss.step + 1 ]_vars

\* C6: step never exceeds step_max.
C6_StepNeverExceedsMax == martingale_step_ <= max_martingale_steps_

\* C7: after a Filled for the take-profit exit order with no pending reverse,
\* current_qty_ is base_quantity_ and the step is 0.
C7_ProfitFillResetsSizing ==
    [][ (/\ ev'.op = "status"
         /\ current_state_ = "IN_POSITION"
         /\ ~waiting_for_close_ /\ ~trigger_martingale_on_close_
         /\ active_exit_order_id_ # EmptyId
         /\ active_exit_order_id_ # active_order_id_
         /\ Delivered(active_exit_order_id_, "Filled"))
        => /\ current_qty_' = base_quantity_
           /\ martingale_step_' = 0 ]_vars

\* the books C8 names: a side missing, best bid equal to or above best ask,
\* or a top level of zero quantity
BadBook(b) ==
    \/ b.bid.count = 0 \/ b.ask.count = 0
    \/ b.bid.price >= b.ask.price
    \/ b.bid.qty = 0 \/ b.ask.qty = 0

\* C8: on such a book validate fails and the tick places no order, in every
\* state.
C8_BadBookPlacesNothing ==
    [][ ev'.op = "tick"
        => \A b \in Books :
              (BadBook(b) /\ run_trading_cycle(b, b, b))
              => /\ ~validate_market_data(b)
                 /\ Places(sent') = <<>> ]_vars

\* C9: a status whose id matches no order the strategy has sent, the empty id
\* included, changes no strategy field and sends nothing.
C9_UnknownIdDropped ==
    [][ ev'.op = "status"
        => \A id \in {EmptyId, UnknownId} : \A status \in Statuses :
              Delivered(id, status)
              => /\ UNCHANGED engine
                 /\ sent' = <<>> ]_vars

\* C10: a Rejected for the entry id after its Filled moved the strategy to
\* InPosition leaves state, filled flag and order ids unchanged.
C10_LateRejectedIgnored ==
    [][ (/\ ev'.op = "status"
         /\ current_state_ = "IN_POSITION"
         /\ position_filled_ /\ ~waiting_for_close_
         /\ active_order_id_ # EmptyId
         /\ active_exit_order_id_ # active_order_id_
         /\ Delivered(active_order_id_, "Rejected"))
        => UNCHANGED <<current_state_, position_filled_, active_order_id_,
                       active_exit_order_id_>> ]_vars

\* C11: the callback and the tick never interleave inside a state transition,
\* so every state reached with the two threads running is one that whole
\* ticks and whole callbacks reach.  Whole handlers keep this: an order is
\* being placed, working or being cancelled with the position recorded as
\* filled only when that order is the aggressive close.
C11_OnlyWholeHandlerStates ==
    (current_state_ \in {"PLACING_ORDER", "WORKING", "CANCELLING"}
     /\ position_filled_)
    => waiting_for_close_

\* the callback delivers some status of kind status
StatusArrives(status) ==
    /\ ev'.op = "status"
    /\ \E id \in Ids : Delivered(id, status)

\* the arrows of the transition table that change the state
TableArrow ==
    LET from == current_state_
        to == current_state_'
        tick == ev'.op = "tick"
    IN  \/ from = "IDLE" /\ tick /\ to = "PLACING_ORDER"
        \/ from = "PLACING_ORDER" /\ StatusArrives("New") /\ to = "WORKING"
        \/ from = "PLACING_ORDER" /\ StatusArrives("Rejected") /\ to = "IDLE"
        \/ from = "WORKING" /\ tick /\ to = "CANCELLING"
        \/ from = "WORKING" /\ StatusArrives("Filled") /\ to = "IN_POSITION"
        \/ from = "CANCELLING" /\ StatusArrives("Cancelled") /\ to = "IDLE"
        \/ from = "CANCELLING" /\ StatusArrives("Rejected")
                               /\ to = "IN_POSITION"
        \/ from = "IN_POSITION" /\ tick /\ to = "PLACING_ORDER"
        \/ from = "IN_POSITION" /\ StatusArrives("Filled")
                                /\ to \in {"IDLE", "RECOVERING"}
        \/ from = "RECOVERING" /\ tick /\ to = "PLACING_ORDER"

\* C12: every change of the strategy state is an arrow of the transition
\* table: no tick and no status moves the state along a (from, trigger, to)
\* triple the table does not list.
C12_EveryChangeIsTableArrow ==
    [][ current_state_' # current_state_ => TableArrow ]_vars

\* C13: the id generated for an outbound order differs from every id
\* generated earlier, also when both are generated at one clock reading;
\* in particular from the ids of the orders the engine still tracks, which
\* generate_id() returned earlier.
C13_GeneratedIdsDiffer ==
    [][ ev' # ev
        => \A i \in 1 .. Len(Places(sent')) :
              Places(sent')[i].id \notin {active_order_id_,
                                          active_exit_order_id_} ]_vars

\* C14: constructed over a buffer with an active record for the symbol, the
\* engine starts in InPosition with direction, quantity, entry price and
\* active order id from the record and filled set, and no tick run in
\* InPosition places an entry order (what it places is the aggressive
\* close); constructed over a buffer with no active record it starts in Idle.
C14_RecoveredStartsInPosition ==
    /\ IF has_order_in_buffer(order_buffer_)
       THEN /\ current_state_ = "IN_POSITION"
            /\ is_short_ = (order_buffer_.side = "Sell")
            /\ current_qty_ = order_buffer_.quantity
            /\ entry_price_ = order_buffer_.price
            /\ active_order_id_ = order_buffer_.order_id
            /\ position_filled_
       ELSE current_state_ = "IDLE"
    /\ [][ (ev'.op = "tick" /\ current_state_ = "IN_POSITION")
           => \A i \in 1 .. Len(Places(sent')) :
                 /\ ~Places(sent')[i].maker
                 /\ Places(sent')[i].side = (IF is_short_ THEN "Buy" ELSE "Sell")
                 /\ waiting_for_close_' ]_vars

\* a tick has run on the recovered position and left it open, and one has
\* closed it at the stop
C14_Witness ==
    /\ ev.op = "tick"
    /\ position_filled_
    /\ is_short_ /\ entry_price_ = 39980
    /\ \/ current_state_ = "IN_POSITION" /\ active_order_id_ = RecoveredId
          /\ has_order_in_buffer(order_buffer_)
       \/ current_state_ = "PLACING_ORDER" /\ waiting_for_close_
          /\ order_buffer_.order_id = RecoveredId

\* C15: when a tick in Idle places an entry order, the buffer afterwards
\* holds an active record for the symbol with the order's id, side, price and
\* quantity.
C15_EntryMirroredToBuffer ==
    [][ (/\ ev'.op = "tick"
         /\ current_state_ = "IDLE" /\ current_state_' = "PLACING_ORDER")
        => /\ has_order_in_buffer(order_buffer_')
           /\ order_buffer_'.order_id = active_order_id_'
           /\ order_buffer_'.side = (IF is_short_' THEN "Sell" ELSE "Buy")
           /\ order_buffer_'.price = active_order_price_'
           /\ order_buffer_'.quantity = current_qty_' ]_vars

\* C16: with one writer running successive updates and a concurrent reader,
\* whenever the reader has loaded a count k > 0, each entry among the first
\* k it reads holds the value written before the store of that k, never a
\* value of a later update in progress.
C16_ReaderSeesEntriesOfLoadedCount ==
    reader.seen.count > 0
    => /\ reader.pc \in {"quantity", "idle"}
            => reader.seen.price = reader.known.price
       /\ reader.pc = "idle" => reader.seen.qty = reader.known.qty

\* C17: in every book state between calls of the ingest thread, the one
\* between update_bids and update_asks of one message included, if both
\* sides are non-empty then bids[0].price < asks[0].price; every message of
\* FeedMessages is uncrossed.
C17_BookNeverCrossed ==
    (feed.i = 0 /\ bid_count_ > 0 /\ ask_count_ > 0)
    => bids_[1].price < asks_[1].price

\* C18: update_bids / update_asks leave the side's count at
\* min(|levels|, MAX_LEVELS) and the leading entries equal to the first that
\* many input levels in input order; the counts stay within
\* 0 .. MAX_LEVELS; the other side is not touched.
C18_UpdateStoresLeadingLevels ==
    /\ [](bid_count_ \in 0 .. MAX_LEVELS /\ ask_count_ \in 0 .. MAX_LEVELS)
    /\ [][ /\ (feed.pc = "update_bids" /\ feed'.pc # "update_bids")
              => /\ bid_count_' = Min(Len(feed.bids), MAX_LEVELS)
                 /\ \A j \in 1 .. bid_count_' : bids_'[j] = feed.bids[j]
           /\ feed.pc = "update_bids"
              => asks_' = asks_ /\ ask_count_' = ask_count_
           /\ (feed.pc = "update_asks" /\ feed'.pc # "update_asks")
              => /\ ask_count_' = Min(Len(feed.asks), MAX_LEVELS)
                 /\ \A j \in 1 .. ask_count_' : asks_'[j] = feed.asks[j]
           /\ feed.pc = "update_asks"
              => bids_' = bids_ /\ bid_count_' = bid_count_ ]_vars

\* update_bids has returned from a vector longer than the array, update_asks
\* from a shorter one
C18_Witness ==
    /\ feed.pc = "increment_update"
    /\ Len(feed.bids) = MAX_LEVELS + 1 /\ bid_count_ = MAX_LEVELS
    /\ Len(feed.asks) = 1 /\ ask_count_ = 1
    /\ bids_[MAX_LEVELS] = feed.bids[MAX_LEVELS]
    /\ asks_[MAX_LEVELS] # NoLevels[MAX_LEVELS]

\* C19: get_best_bid / get_best_ask answer absent exactly when the count
\* they loaded is zero or the leading price or the leading quantity they
\* loaded is <= 0; otherwise the price and quantity they hand back are the
\* leading entry's.
C19_BestAbsentIffEmptyOrBad ==
    /\ []((reader.pc = "idle" /\ reader.called)
            => (~reader.found <=> \/ reader.seen.count = 0
                                  \/ reader.seen.price <= 0
                                  \/ reader.seen.qty <= 0))
    /\ [][ LET first == IF reader.side = "bid" THEN bids_[1] ELSE asks_[1]
           IN  /\ reader.pc = "price" /\ reader'.pc = "quantity"
                    => reader'.seen.price = first.price
               /\ reader.pc = "quantity" /\ reader'.pc = "idle"
                    => /\ reader'.seen.price = reader.seen.price
                       /\ reader'.seen.qty = first.quantity
                       /\ reader'.seen.count = reader.seen.count ]_vars

\* get_best_bid has answered absent for a side with a positive count whose
\* leading level has a quantity and no price
C19_Witness ==
    /\ reader.pc = "idle" /\ reader.side = "bid"
    /\ ~reader.found
    /\ reader.seen.count > 0 /\ reader.seen.price <= 0 /\ reader.seen.qty > 0

\* C20: update_id_ never decreases; a message that updates at least one side
\* raises it by exactly 1 in all, a message that updates neither leaves it.
C20_UpdateIdCountsMessages ==
    [][ /\ update_id_' >= update_id_
        /\ feed'.pc # "idle" => update_id_' = feed'.start
        /\ (feed.pc # "idle" /\ feed'.pc = "idle")
              => update_id_' = feed.start + 1
        /\ (feed.pc = "idle" /\ feed'.pc = "idle")
              => update_id_' = update_id_ ]_vars

\* messages with data have been counted and then one with none was skipped
C20_Witness ==
    /\ feed.pc = "idle"
    /\ update_id_ = MaxUpdates
    /\ feed.last = "skipped"

\* C21: a get that follows put(r) with no writer in between returns r for
\* r's symbol; a put for a symbol that has a record replaces it, so the
\* buffer never holds two records, and so never two active records, under
\* one symbol.
C21_PutThenGetReturnsPut ==
    /\ [](\A i, j \in 1 .. Len(order_map) :
            order_map[i].key = order_map[j].key => i = j)
    /\ [][ /\ (/\ buf_call.op = "publish_order"
               /\ buf_call'.op = "get_order_from_buffer"
               /\ buf_call'.key = c_str(buf_call.arg.symbol))
              => buf_call'.ret = buf_call.arg
           /\ buf_call'.op = "publish_order"
              => /\ stored(order_map', buf_call'.key) = buf_call'.arg
                 /\ Len(order_map')
                      = IF find(order_map, buf_call'.key) = 0
                        THEN Len(order_map) + 1 ELSE Len(order_map) ]_vars

\* get has returned the record a put stored over an earlier record of the
\* same symbol, the symbol array of the new one differing after its NUL
C21_Witness ==
    /\ buf_call.op = "get_order_from_buffer"
    /\ buf_call.key = <<"E">>
    /\ buf_call.ret.present
    /\ buf_call.ret.symbol = <<"E", NUL, "T">>
    /\ Len(order_map) = 2

\* C22: after deactivate(s), has_active(s) is false and get(s) returns the
\* record with every field but is_active as it was; deactivate of a symbol
\* without a record changes nothing; records of other symbols stay as they
\* are.
C22_DeactivateKeepsRecord ==
    [][ buf_call'.op = "remove_order_from_buffer"
        => LET key == buf_call'.key
               old == stored(order_map, key)
               new == stored(order_map', key)
           IN  /\ ~has_order_in_buffer(new)
               /\ find(order_map, key) # 0
                    => /\ get_order_from_buffer(new)
                          = [old EXCEPT !.is_active = FALSE]
                       /\ Len(order_map') = Len(order_map)
               /\ find(order_map, key) = 0 => order_map' = order_map
               /\ \A other \in BufferKeys \ {key} :
                     stored(order_map', other) = stored(order_map, other)
      ]_vars

\* an active record has been deactivated next to an active one of another
\* symbol
C22_Witness ==
    /\ buf_call.op = "remove_order_from_buffer"
    /\ buf_call.key = <<"E">>
    /\ stored(order_map, <<"E">>).present
    /\ ~stored(order_map, <<"E">>).is_active
    /\ stored(order_map, <<"E">>).quantity = 1
    /\ has_order_in_buffer(stored(order_map, <<"B", "T">>))

\* C23: publish retries a failed offer a bounded number of times before it
\* returns failure, and returns success as soon as an offer succeeds.
C23_PublishRetriesOffer ==
    (pub_call.called /\ pub_call.publication)
    => /\ ~pub_call.ret => pub_call.attempts > 1
       /\ pub_call.ret <=> \E i \in 1 .. Len(pub_call.offers) :
                              /\ pub_call.offers[i] = "position"
                              /\ i <= pub_call.attempts

\* the callback step that takes a fragment off the wire
ReceiveStep ==
    /\ session.link = "open"
    /\ session.wire.next > 0
    /\ session'.link = "open"
    /\ session'.wire.next # session.wire.next

FinalStep == ReceiveStep /\ session.wire.next = session.wire.of

\* C24: a fragment that is not the last is appended to the session buffer
\* and the parser is not called; on the last fragment the parser is called
\* once, on all the fragments of the message in the order they arrived, and
\* the buffer is empty afterwards; the buffer is also empty after every
\* connection open and close.
C24_FragmentsParsedOnceInOrder ==
    [][/\ (ReceiveStep /\ ~FinalStep) =>
            /\ session'.parsed = <<>>
            /\ session'.rx_buffer =
                  [k \in 1 .. session.wire.next |->
                     Fragment(session.wire.msg, k, session.wire.of)]
       /\ FinalStep =>
            /\ session'.parsed =
                  <<WholeMessage(session.wire.msg, session.wire.of)>>
            /\ session'.rx_buffer = <<>>
       /\ (session'.link # session.link /\ session'.link \in {"open", "closed"})
            => session'.rx_buffer = <<>>]_vars

\* a message of several fragments has been handed to the parser
C24_Witness ==
    /\ session.parsed # <<>>
    /\ Len(session.parsed[1]) > 1
    /\ session.rx_buffer = <<>>

\* what the callback is to be told about a message
expected_callbacks(msg) ==
    IF msg.kind = "execution" THEN <<[id |-> msg.id, status |-> "Filled"]>>
    ELSE IF msg.kind = "order.create"
      THEN <<[id |-> msg.id,
              status |-> IF msg.retCode = 0 THEN "New" ELSE "Rejected"]>>
    ELSE IF msg.kind = "order.cancel"
      THEN <<[id |-> msg.id,
              status |-> IF msg.retCode = 0 THEN "Cancelled" ELSE "Rejected"]>>
    ELSE <<>>

\* C25: a complete execution report delivers exactly one Filled to the
\* callback, and an acknowledgement of order.create or order.cancel exactly
\* one New or Cancelled (retCode 0) or Rejected (retCode not 0) for its
\* client id.
C25_ReportsReachCallback ==
    [][FinalStep =>
         session'.emitted = expected_callbacks(session.wire.msg)]_vars

\* C26: with the shutdown flag cleared, main returns only after the strategy
\* loop has stopped and the two WebSocket threads and the Aeron thread have
\* ended and been joined, and it returns 0.
C26_ShutdownReturnsZero ==
    (proc.main = "returned") =>
       /\ ~proc.g_running
       /\ \A c \in Clients : proc.thread[c] = "done" /\ proc.joined[c]
       /\ proc.aeron_thread # "running"
       /\ proc.exit = 0

\* C27: for each of the three templates, decoding the bytes the encoder
\* produced gives back the encoded value, and no other value of the template
\* encodes to the same bytes.
C27_DecodeOfEncodeIsValue ==
    (codec.op # "none") =>
       /\ decode(codec.bytes) = codec.x
       /\ \A y \in {[codec.x EXCEPT !.symbol = sym] : sym \in SymbolStrings} :
             encode(CodecInit, y).bytes = codec.bytes => y = codec.x

\* C28: a Filled for the active entry id, in WORKING or in PLACING_ORDER
\* (New never seen), sets position_filled_, moves to IN_POSITION and sends
\* exactly one post-only order: on the opposite side, for current_qty_, at
\* entry_price_ * (1 + d * tp) with d = +1 for a long and -1 for a short.
C28_EntryFillPostsExit ==
    [][ (/\ ev'.op = "status"
         /\ current_state_ \in {"WORKING", "PLACING_ORDER"}
         /\ ~waiting_for_close_
         /\ active_order_id_ # EmptyId
         /\ Delivered(active_order_id_, "Filled"))
        => /\ position_filled_'
           /\ current_state_' = "IN_POSITION"
           /\ Len(sent') = 1
           /\ sent'[1].op = "place" /\ sent'[1].maker
           /\ sent'[1].side = (IF is_short_ THEN "Buy" ELSE "Sell")
           /\ sent'[1].qty = current_qty_
           /\ sent'[1].price =
                 entry_price_ * (RateScale + (IF is_short_ THEN -1 ELSE 1)
                                              * profit_target_percent_) ]_vars

\* the exit of a short entry has been posted
C28_Witness ==
    /\ ev.op = "status"
    /\ current_state_ = "IN_POSITION"
    /\ position_filled_ /\ is_short_
    /\ Len(sent) = 1
    /\ sent[1].op = "place" /\ sent[1].side = "Buy" /\ sent[1].maker

Max(a, b) == IF a > b THEN a ELSE b

\* the entry price the claim gives for book b
ClampedEntry(b, short) ==
    LET mid == (b.bid.price + b.ask.price) \div 2
    IN  IF ~short THEN Min(mid - ENTRY_OFFSET, b.ask.price - SAFETY_CAP)
                  ELSE Max(mid + ENTRY_OFFSET, b.bid.price + SAFETY_CAP)

best(b) == IF is_short_ THEN b.ask.price ELSE b.bid.price
Distance(p, q) == IF p > q THEN p - q ELSE q - p

cancelled_working ==
    /\ sent' = <<CancelReq(active_order_id_)>>
    /\ current_state_' = "CANCELLING"

left_working ==
    /\ sent' = <<>>
    /\ current_state_' = "WORKING"

\* C30: in WORKING a tick on a valid book cancels the entry and moves to
\* CANCELLING when the age exceeds T_STALE, or when it exceeds T_GRACE and
\* |best - active_order_price_| > delta_chase; otherwise it sends nothing
\* and stays in WORKING.
C30_WorkingCancelsOnStaleOrChase ==
    [][ (ev'.op = "tick" /\ current_state_ = "WORKING")
        => \A b \in Books :
              (validate_market_data(b) /\ run_trading_cycle(b, b, b))
              => IF \/ elapsed_ms > STALE_MS
                    \/ /\ elapsed_ms > GRACE_MS
                       /\ Distance(best(b), active_order_price_) > CHASE_DELTA
                 THEN cancelled_working ELSE left_working ]_vars

\* C30 as amended: the chase is evaluated from age T_GRACE on, on the book
\* the tick reads for it, and only for a best price that has moved past the
\* order: best bid above a buy, best ask below a sell, by more than
\* delta_chase.
C30_WorkingCancelsOnStaleOrPassed ==
    [][ (ev'.op = "tick" /\ current_state_ = "WORKING")
        => \A b1 \in Books : validate_market_data(b1) =>
           \A b2 \in FeedReach(b1) :
              run_trading_cycle(b1, b2, b2)
              => IF \/ elapsed_ms > STALE_MS
                    \/ /\ elapsed_ms >= GRACE_MS
                       /\ get_best_bid(b2) /\ get_best_ask(b2)
                       /\ IF is_short_
                            THEN b2.ask.price < active_order_price_ - CHASE_DELTA
                            ELSE b2.bid.price > active_order_price_ + CHASE_DELTA
                 THEN cancelled_working ELSE left_working ]_vars

\* a tick has cancelled the working entry and moved to CANCELLING
C30_Witness ==
    /\ ev.op = "tick"
    /\ current_state_ = "CANCELLING"
    /\ sent = <<CancelReq(active_order_id_)>>
    /\ active_order_id_ # EmptyId

\* C31: in PLACING_ORDER a valid tick more than T_ORDER after
\* state_entry_time_ sends a cancel for active_order_id_, re-arms the timer
\* and stays in PLACING_ORDER; a valid tick at or before T_ORDER sends
\* nothing and changes nothing.
C31_PlacingTimeoutCancelsAndRearms ==
    [][ (ev'.op = "tick" /\ current_state_ = "PLACING_ORDER")
        => \A b \in Books :
              (validate_market_data(b) /\ run_trading_cycle(b, b, b))
              => IF elapsed_ms > ORDER_TIMEOUT_MS
                 THEN /\ sent' = <<CancelReq(active_order_id_)>>
                      /\ elapsed_ms' = 0
                      /\ current_state_' = "PLACING_ORDER"
                      /\ active_order_id_' = active_order_id_
                 ELSE /\ sent' = <<>>
                      /\ UNCHANGED engine ]_vars

\* a tick has sent the timeout cancel of an order being placed
C31_Witness ==
    /\ ev.op = "tick"
    /\ current_state_ = "PLACING_ORDER"
    /\ active_order_id_ # EmptyId
    /\ sent = <<CancelReq(active_order_id_)>>
    /\ elapsed_ms = 0

C33_RejectedEntryClearsId ==
    [][ (/\ ev'.op = "status"
         /\ current_state_ = "PLACING_ORDER"
         /\ ~waiting_for_close_
         /\ active_order_id_ # EmptyId
         /\ active_exit_order_id_ # active_order_id_
         /\ Delivered(active_order_id_, "Rejected"))
        => /\ current_state_' = "IDLE"
           /\ active_order_id_' # active_order_id_ ]_vars

\* C34: a frame that fails to parse is discarded: handle_message returns
\* without an exception leaving it and both sides of the book and the
\* update id are as before.
C34_BadFrameDiscarded ==
    [][ \A f \in Frames :
          (f.defect.at # "none" /\ handle_frame(f))
          => /\ feed'.last # "thrown"
             /\ UNCHANGED <<bids_, asks_, bid_count_, ask_count_,
                            update_id_>> ]_vars

C36_DuplicateFilledIsNoOp ==
    [][ \A id \in Ids \ {EmptyId} :
          (ev.op = "status" /\ ev.filled = id /\ Delivered(id, "Filled"))
          => /\ sent' = <<>>
             /\ UNCHANGED engine ]_vars

\* C37: an entry is sent only when no earlier entry still rests at the
\* exchange and no position is open there: at most one entry or open
\* position is outstanding at a time.
C37_OneEntryOrPositionOutstanding ==
    [][ (ev'.op = "tick" /\ current_state_ = "IDLE" /\ Places(sent') # <<>>)
        => /\ venue.pos = 0
           /\ ~\E o \in venue.live : o.kind = "entry" ]_vars

\* C38: for one position the quantity its exit orders filled never exceeds
\* the quantity of the entry: the take-profit exit and the stop-loss close
\* never both fill.
C38_ExitsFillAtMostTheEntry == venue.exited <= venue.entered

\* the aggressive close comes back Cancelled or Rejected: the state is
\* IN_POSITION again, no close is awaited, the position is still filled
CloseReturned ==
    \A status \in {"Cancelled", "Rejected"} :
        (/\ waiting_for_close_ /\ active_order_id_ # active_exit_order_id_
         /\ Delivered(active_order_id_, status))
        => /\ current_state_' = "IN_POSITION"
           /\ ~waiting_for_close_'
           /\ position_filled_'

\* the first valid tick after it that is past the settle time and sees the
\* stop loss sends a close
CloseRetried(b) ==
    /\ current_state_' = "PLACING_ORDER" /\ waiting_for_close_'
    /\ Len(Places(sent')) = 1
    /\ Places(sent')[1].id = active_order_id_'
    /\ Places(sent')[1].side = (IF is_short_ THEN "Buy" ELSE "Sell")

\* C39: an aggressive close that is Rejected or Cancelled returns the state
\* to IN_POSITION with waiting_for_close_ cleared and the position still
\* filled, and a valid tick that then observes the stop loss sends a new
\* close under a client id the returned close did not have.
C39_ReturnedCloseRetriedFreshId ==
    [][ /\ ev'.op = "status" => CloseReturned
        /\ \A b \in Books :
              (/\ ev.returned # EmptyId /\ ev'.op = "tick"
               /\ validate_market_data(b) /\ run_trading_cycle(b, b, b)
               /\ ~(elapsed_ms < SETTLE_MS) /\ stop_loss_hit(b))
              => /\ CloseRetried(b)
                 /\ active_order_id_' # ev.returned ]_vars

RECURSIVE Pow2(_)
Pow2(n) == IF n = 0 THEN 1 ELSE 2 * Pow2(n - 1)

\* C40: in every reachable state of an engine started without a recovered
\* record, current_qty_ = base_quantity_ * 2^martingale_step_.
C40_QuantityIsBaseTimesPowerOfStep ==
    current_qty_ = base_quantity_ * Pow2(martingale_step_)

\* two stop-loss closes in a row have filled: the step is 2 and the size is
\* four times the base
C40_Witness ==
    /\ martingale_step_ = 2 /\ current_qty_ = 4 * base_quantity_
    /\ ev.op = "status" /\ ev.filled # EmptyId

====
